---- MODULE Spec2Model ----
(***************************************************************************)
(* A model of gosuslugi_api: the license pipeline of GosUslugiAPIClient   *)
(* (clients.py) and the row normalizer of Licenses / LicensesFileRow      *)
(* (utils.py).                                                            *)
(*                                                                         *)
(* Text is modelled as a sequence of Unicode code points (TLA+ strings    *)
(* cannot be taken apart), so that strip(), lower(), endswith() and       *)
(* strptime() are computed character by character as Python does.         *)
(***************************************************************************)
EXTENDS Integers, Sequences, FiniteSets, TLC

VARIABLES
    timeout,        \* GosUslugiAPIClient(timeout=...), kept in HTTPClient.timeout
    region_codes,   \* the argument of get_licenses
    pc,             \* position inside get_licenses
    raised,         \* the exception that left get_licenses, or NoError
    i,              \* region codes already handled by _get_license_uids
    j,              \* entries already handled by _get_licenses_info
    license_uids,   \* dict region name -> uid, in insertion order
    licenses_info,  \* dict region name -> archive, in insertion order
    requests_sent,  \* every network request issued, in order
    error_log,      \* logger.error calls of the two retrieval loops
    gen,            \* the generator of _get_workbooks_from_licenses_info
    zip_files,      \* ZipFile handles opened so far, each with its open flag
    workbooks,      \* workbooks loaded (and yielded) so far, each with its open flag
    worksheets,     \* Licenses.workbook.worksheets of the row normalizer
    rows_gen,       \* the generator object the last read of Licenses.rows made
    rows_out,       \* the LicensesFileRow records the caller has received from it
    rows_raised,    \* the exception a pull of the row generator raised, or NoError
    cells,          \* the row (a tuple of cells) handed to _make_gis_gkh_row
    record,         \* the LicensesFileRow built from cells, or the error raised
    keep_alive,     \* HTTPClient.keep_alive
    http_session,   \* HTTPClient._session: 0 for None, else the session's number
    sessions,       \* every requests.Session made so far, each with its closed flag
    http_calls      \* the calls of HTTPClient._make_request, in order

pipeline_vars == <<timeout, region_codes, pc, raised, i, j, license_uids,
                   licenses_info, requests_sent, error_log, gen, zip_files,
                   workbooks>>
rows_vars == <<worksheets, rows_gen, rows_out, rows_raised>>
row_vars == <<cells, record>>
http_vars == <<keep_alive, http_session, sessions, http_calls>>
vars == <<pipeline_vars, rows_vars, row_vars, http_vars>>

NoError == [type |-> "none"]

(***************************************************************************)
(* Bounds of the model.                                                    *)
(***************************************************************************)
MaxCodes == 3
MaxRows == 4
MaxRequests == 3

SeqsUpTo(S, n) == UNION {[1..k -> S] : k \in 0..n}

(***************************************************************************)
(* Text helpers: str.strip(), str.lower(), str.endswith().                 *)
(***************************************************************************)
\* The characters str.strip() removes and \s matches: those str.isspace()
\* holds of.
SpaceChars ==
    {9, 10, 11, 12, 13, 28, 29, 30, 31, 32, 133, 160, 5760, 8192, 8193,
     8194, 8195, 8196, 8197, 8198, 8199, 8200, 8201, 8202, 8232, 8233,
     8239, 8287, 12288}

IsSpace(c) == c \in SpaceChars

\* A run <<lo, hi, step, ...>> of code points: lo, lo + step, ..., hi.
InRun(c, r) == c >= r[1] /\ c <= r[2] /\ (c - r[1]) % r[3] = 0

\* The simple lowercase mapping of the characters from 128 on, as runs
\* <<lo, hi, step, d>>: a character of the run maps to itself plus d.
LowerRunsTo1023 ==
    {<<192, 214, 1, 32>>, <<216, 222, 1, 32>>, <<256, 302, 2, 1>>,
     <<306, 310, 2, 1>>, <<313, 327, 2, 1>>, <<330, 374, 2, 1>>,
     <<376, 376, 1, -121>>, <<377, 381, 2, 1>>, <<385, 385, 1, 210>>,
     <<386, 388, 2, 1>>, <<390, 390, 1, 206>>, <<391, 391, 1, 1>>,
     <<393, 394, 1, 205>>, <<395, 395, 1, 1>>, <<398, 398, 1, 79>>,
     <<399, 399, 1, 202>>, <<400, 400, 1, 203>>, <<401, 401, 1, 1>>,
     <<403, 403, 1, 205>>, <<404, 404, 1, 207>>, <<406, 406, 1, 211>>,
     <<407, 407, 1, 209>>, <<408, 408, 1, 1>>, <<412, 412, 1, 211>>,
     <<413, 413, 1, 213>>, <<415, 415, 1, 214>>, <<416, 420, 2, 1>>,
     <<422, 422, 1, 218>>, <<423, 423, 1, 1>>, <<425, 425, 1, 218>>,
     <<428, 428, 1, 1>>, <<430, 430, 1, 218>>, <<431, 431, 1, 1>>,
     <<433, 434, 1, 217>>, <<435, 437, 2, 1>>, <<439, 439, 1, 219>>,
     <<440, 440, 1, 1>>, <<444, 444, 1, 1>>, <<452, 452, 1, 2>>,
     <<453, 453, 1, 1>>, <<455, 455, 1, 2>>, <<456, 456, 1, 1>>,
     <<458, 458, 1, 2>>, <<459, 475, 2, 1>>, <<478, 494, 2, 1>>,
     <<497, 497, 1, 2>>, <<498, 500, 2, 1>>, <<502, 502, 1, -97>>,
     <<503, 503, 1, -56>>, <<504, 542, 2, 1>>, <<544, 544, 1, -130>>,
     <<546, 562, 2, 1>>, <<570, 570, 1, 10795>>, <<571, 571, 1, 1>>,
     <<573, 573, 1, -163>>, <<574, 574, 1, 10792>>, <<577, 577, 1, 1>>,
     <<579, 579, 1, -195>>, <<580, 580, 1, 69>>, <<581, 581, 1, 71>>,
     <<582, 590, 2, 1>>, <<880, 882, 2, 1>>, <<886, 886, 1, 1>>,
     <<895, 895, 1, 116>>, <<902, 902, 1, 38>>, <<904, 906, 1, 37>>,
     <<908, 908, 1, 64>>, <<910, 911, 1, 63>>, <<913, 929, 1, 32>>,
     <<931, 939, 1, 32>>, <<975, 975, 1, 8>>, <<984, 1006, 2, 1>>,
     <<1012, 1012, 1, -60>>, <<1015, 1015, 1, 1>>, <<1017, 1017, 1, -7>>,
     <<1018, 1018, 1, 1>>, <<1021, 1023, 1, -130>>}

LowerRunsTo1327 ==
    {<<1024, 1039, 1, 80>>, <<1040, 1071, 1, 32>>, <<1120, 1152, 2, 1>>,
     <<1162, 1214, 2, 1>>, <<1216, 1216, 1, 15>>, <<1217, 1229, 2, 1>>,
     <<1232, 1326, 2, 1>>}

LowerRunsAbove ==
    {<<1329, 1366, 1, 48>>, <<4256, 4293, 1, 7264>>,
     <<4295, 4295, 1, 7264>>, <<4301, 4301, 1, 7264>>,
     <<5024, 5103, 1, 38864>>, <<5104, 5109, 1, 8>>,
     <<7312, 7354, 1, -3008>>, <<7357, 7359, 1, -3008>>,
     <<7680, 7828, 2, 1>>, <<7838, 7838, 1, -7615>>, <<7840, 7934, 2, 1>>,
     <<7944, 7951, 1, -8>>, <<7960, 7965, 1, -8>>, <<7976, 7983, 1, -8>>,
     <<7992, 7999, 1, -8>>, <<8008, 8013, 1, -8>>, <<8025, 8031, 2, -8>>,
     <<8040, 8047, 1, -8>>, <<8072, 8079, 1, -8>>, <<8088, 8095, 1, -8>>,
     <<8104, 8111, 1, -8>>, <<8120, 8121, 1, -8>>, <<8122, 8123, 1, -74>>,
     <<8124, 8124, 1, -9>>, <<8136, 8139, 1, -86>>, <<8140, 8140, 1, -9>>,
     <<8152, 8153, 1, -8>>, <<8154, 8155, 1, -100>>,
     <<8168, 8169, 1, -8>>, <<8170, 8171, 1, -112>>,
     <<8172, 8172, 1, -7>>, <<8184, 8185, 1, -128>>,
     <<8186, 8187, 1, -126>>, <<8188, 8188, 1, -9>>,
     <<8486, 8486, 1, -7517>>, <<8490, 8490, 1, -8383>>,
     <<8491, 8491, 1, -8262>>, <<8498, 8498, 1, 28>>,
     <<8544, 8559, 1, 16>>, <<8579, 8579, 1, 1>>, <<9398, 9423, 1, 26>>,
     <<11264, 11311, 1, 48>>, <<11360, 11360, 1, 1>>,
     <<11362, 11362, 1, -10743>>, <<11363, 11363, 1, -3814>>,
     <<11364, 11364, 1, -10727>>, <<11367, 11371, 2, 1>>,
     <<11373, 11373, 1, -10780>>, <<11374, 11374, 1, -10749>>,
     <<11375, 11375, 1, -10783>>, <<11376, 11376, 1, -10782>>,
     <<11378, 11378, 1, 1>>, <<11381, 11381, 1, 1>>,
     <<11390, 11391, 1, -10815>>, <<11392, 11490, 2, 1>>,
     <<11499, 11501, 2, 1>>, <<11506, 11506, 1, 1>>,
     <<42560, 42604, 2, 1>>, <<42624, 42650, 2, 1>>,
     <<42786, 42798, 2, 1>>, <<42802, 42862, 2, 1>>,
     <<42873, 42875, 2, 1>>, <<42877, 42877, 1, -35332>>,
     <<42878, 42886, 2, 1>>, <<42891, 42891, 1, 1>>,
     <<42893, 42893, 1, -42280>>, <<42896, 42898, 2, 1>>,
     <<42902, 42920, 2, 1>>, <<42922, 42922, 1, -42308>>,
     <<42923, 42923, 1, -42319>>, <<42924, 42924, 1, -42315>>,
     <<42925, 42925, 1, -42305>>, <<42926, 42926, 1, -42308>>,
     <<42928, 42928, 1, -42258>>, <<42929, 42929, 1, -42282>>,
     <<42930, 42930, 1, -42261>>, <<42931, 42931, 1, 928>>,
     <<42932, 42946, 2, 1>>, <<42948, 42948, 1, -48>>,
     <<42949, 42949, 1, -42307>>, <<42950, 42950, 1, -35384>>,
     <<42951, 42953, 2, 1>>, <<42960, 42960, 1, 1>>,
     <<42966, 42968, 2, 1>>, <<42997, 42997, 1, 1>>,
     <<65313, 65338, 1, 32>>, <<66560, 66599, 1, 40>>,
     <<66736, 66771, 1, 40>>, <<66928, 66938, 1, 39>>,
     <<66940, 66954, 1, 39>>, <<66956, 66962, 1, 39>>,
     <<66964, 66965, 1, 39>>, <<68736, 68786, 1, 64>>,
     <<71840, 71871, 1, 32>>, <<93760, 93791, 1, 32>>,
     <<125184, 125217, 1, 34>>}

LowerRuns(c) ==
    IF c < 1024 THEN LowerRunsTo1023
    ELSE IF c < 1328 THEN LowerRunsTo1327
    ELSE LowerRunsAbove

\* The lowercase of one character taken alone, where it is one character.
LowerChar(c) ==
    IF c < 128 THEN (IF c >= 65 /\ c <= 90 THEN c + 32 ELSE c)
    ELSE IF \E r \in LowerRuns(c) : InRun(c, r)
    THEN c + (CHOOSE r \in LowerRuns(c) : InRun(c, r))[4]
    ELSE c

\* The Case_Ignorable and the Cased characters, as runs <<lo, hi, step>>:
\* str.lower() consults them around a capital sigma.
CaseIgnorableRuns ==
    {<<39, 39, 1>>, <<46, 46, 1>>, <<58, 58, 1>>, <<94, 96, 2>>,
     <<168, 168, 1>>, <<173, 175, 2>>, <<180, 180, 1>>, <<183, 184, 1>>,
     <<688, 879, 1>>, <<884, 885, 1>>, <<890, 890, 1>>, <<900, 901, 1>>,
     <<903, 903, 1>>, <<1155, 1161, 1>>, <<1369, 1369, 1>>,
     <<1375, 1375, 1>>, <<1425, 1469, 1>>, <<1471, 1473, 2>>,
     <<1474, 1476, 2>>, <<1477, 1479, 2>>, <<1524, 1524, 1>>,
     <<1536, 1541, 1>>, <<1552, 1562, 1>>, <<1564, 1564, 1>>,
     <<1600, 1600, 1>>, <<1611, 1631, 1>>, <<1648, 1648, 1>>,
     <<1750, 1757, 1>>, <<1759, 1768, 1>>, <<1770, 1773, 1>>,
     <<1807, 1809, 2>>, <<1840, 1866, 1>>, <<1958, 1968, 1>>,
     <<2027, 2037, 1>>, <<2042, 2042, 1>>, <<2045, 2045, 1>>,
     <<2070, 2093, 1>>, <<2137, 2139, 1>>, <<2184, 2184, 1>>,
     <<2192, 2193, 1>>, <<2200, 2207, 1>>, <<2249, 2306, 1>>,
     <<2362, 2364, 2>>, <<2369, 2376, 1>>, <<2381, 2381, 1>>,
     <<2385, 2391, 1>>, <<2402, 2403, 1>>, <<2417, 2417, 1>>,
     <<2433, 2433, 1>>, <<2492, 2492, 1>>, <<2497, 2500, 1>>,
     <<2509, 2509, 1>>, <<2530, 2531, 1>>, <<2558, 2558, 1>>,
     <<2561, 2562, 1>>, <<2620, 2620, 1>>, <<2625, 2626, 1>>,
     <<2631, 2632, 1>>, <<2635, 2637, 1>>, <<2641, 2641, 1>>,
     <<2672, 2673, 1>>, <<2677, 2677, 1>>, <<2689, 2690, 1>>,
     <<2748, 2748, 1>>, <<2753, 2757, 1>>, <<2759, 2760, 1>>,
     <<2765, 2765, 1>>, <<2786, 2787, 1>>, <<2810, 2815, 1>>,
     <<2817, 2817, 1>>, <<2876, 2876, 1>>, <<2879, 2881, 2>>,
     <<2882, 2884, 1>>, <<2893, 2893, 1>>, <<2901, 2902, 1>>,
     <<2914, 2915, 1>>, <<2946, 2946, 1>>, <<3008, 3008, 1>>,
     <<3021, 3021, 1>>, <<3072, 3072, 1>>, <<3076, 3076, 1>>,
     <<3132, 3134, 2>>, <<3135, 3136, 1>>, <<3142, 3144, 1>>,
     <<3146, 3149, 1>>, <<3157, 3158, 1>>, <<3170, 3171, 1>>,
     <<3201, 3201, 1>>, <<3260, 3260, 1>>, <<3263, 3263, 1>>,
     <<3270, 3270, 1>>, <<3276, 3277, 1>>, <<3298, 3299, 1>>,
     <<3328, 3329, 1>>, <<3387, 3388, 1>>, <<3393, 3396, 1>>,
     <<3405, 3405, 1>>, <<3426, 3427, 1>>, <<3457, 3457, 1>>,
     <<3530, 3530, 1>>, <<3538, 3540, 1>>, <<3542, 3542, 1>>,
     <<3633, 3633, 1>>, <<3636, 3642, 1>>, <<3654, 3662, 1>>,
     <<3761, 3761, 1>>, <<3764, 3772, 1>>, <<3782, 3784, 2>>,
     <<3785, 3789, 1>>, <<3864, 3865, 1>>, <<3893, 3897, 2>>,
     <<3953, 3966, 1>>, <<3968, 3972, 1>>, <<3974, 3975, 1>>,
     <<3981, 3991, 1>>, <<3993, 4028, 1>>, <<4038, 4038, 1>>,
     <<4141, 4144, 1>>, <<4146, 4151, 1>>, <<4153, 4154, 1>>,
     <<4157, 4158, 1>>, <<4184, 4185, 1>>, <<4190, 4192, 1>>,
     <<4209, 4212, 1>>, <<4226, 4226, 1>>, <<4229, 4230, 1>>,
     <<4237, 4237, 1>>, <<4253, 4253, 1>>, <<4348, 4348, 1>>,
     <<4957, 4959, 1>>, <<5906, 5908, 1>>, <<5938, 5939, 1>>,
     <<5970, 5971, 1>>, <<6002, 6003, 1>>, <<6068, 6069, 1>>,
     <<6071, 6077, 1>>, <<6086, 6086, 1>>, <<6089, 6099, 1>>,
     <<6103, 6103, 1>>, <<6109, 6109, 1>>, <<6155, 6159, 1>>,
     <<6211, 6211, 1>>, <<6277, 6278, 1>>, <<6313, 6313, 1>>,
     <<6432, 6434, 1>>, <<6439, 6440, 1>>, <<6450, 6450, 1>>,
     <<6457, 6459, 1>>, <<6679, 6680, 1>>, <<6683, 6683, 1>>,
     <<6742, 6744, 2>>, <<6745, 6750, 1>>, <<6752, 6754, 2>>,
     <<6757, 6764, 1>>, <<6771, 6780, 1>>, <<6783, 6783, 1>>,
     <<6823, 6823, 1>>, <<6832, 6862, 1>>, <<6912, 6915, 1>>,
     <<6964, 6966, 2>>, <<6967, 6970, 1>>, <<6972, 6972, 1>>,
     <<6978, 6978, 1>>, <<7019, 7027, 1>>, <<7040, 7041, 1>>,
     <<7074, 7077, 1>>, <<7080, 7081, 1>>, <<7083, 7085, 1>>,
     <<7142, 7144, 2>>, <<7145, 7145, 1>>, <<7149, 7151, 2>>,
     <<7152, 7153, 1>>, <<7212, 7219, 1>>, <<7222, 7223, 1>>,
     <<7288, 7293, 1>>, <<7376, 7378, 1>>, <<7380, 7392, 1>>,
     <<7394, 7400, 1>>, <<7405, 7405, 1>>, <<7412, 7412, 1>>,
     <<7416, 7417, 1>>, <<7468, 7530, 1>>, <<7544, 7544, 1>>,
     <<7579, 7679, 1>>, <<8125, 8127, 2>>, <<8128, 8129, 1>>,
     <<8141, 8143, 1>>, <<8157, 8159, 1>>, <<8173, 8175, 1>>,
     <<8189, 8190, 1>>, <<8203, 8207, 1>>, <<8216, 8217, 1>>,
     <<8228, 8228, 1>>, <<8231, 8231, 1>>, <<8234, 8238, 1>>,
     <<8288, 8292, 1>>, <<8294, 8303, 1>>, <<8305, 8305, 1>>,
     <<8319, 8319, 1>>, <<8336, 8348, 1>>, <<8400, 8432, 1>>,
     <<11388, 11389, 1>>, <<11503, 11505, 1>>, <<11631, 11631, 1>>,
     <<11647, 11647, 1>>, <<11744, 11775, 1>>, <<11823, 11823, 1>>,
     <<12293, 12293, 1>>, <<12330, 12333, 1>>, <<12337, 12341, 1>>,
     <<12347, 12347, 1>>, <<12441, 12446, 1>>, <<12540, 12542, 1>>,
     <<40981, 40981, 1>>, <<42232, 42237, 1>>, <<42508, 42508, 1>>,
     <<42607, 42610, 1>>, <<42612, 42621, 1>>, <<42623, 42623, 1>>,
     <<42652, 42655, 1>>, <<42736, 42737, 1>>, <<42752, 42785, 1>>,
     <<42864, 42864, 1>>, <<42888, 42890, 1>>, <<42994, 42996, 1>>,
     <<43000, 43001, 1>>, <<43010, 43010, 1>>, <<43014, 43014, 1>>,
     <<43019, 43019, 1>>, <<43045, 43046, 1>>, <<43052, 43052, 1>>,
     <<43204, 43205, 1>>, <<43232, 43249, 1>>, <<43263, 43263, 1>>,
     <<43302, 43309, 1>>, <<43335, 43345, 1>>, <<43392, 43394, 1>>,
     <<43443, 43443, 1>>, <<43446, 43449, 1>>, <<43452, 43453, 1>>,
     <<43471, 43471, 1>>, <<43493, 43494, 1>>, <<43561, 43566, 1>>,
     <<43569, 43570, 1>>, <<43573, 43574, 1>>, <<43587, 43587, 1>>,
     <<43596, 43596, 1>>, <<43632, 43632, 1>>, <<43644, 43644, 1>>,
     <<43696, 43698, 2>>, <<43699, 43700, 1>>, <<43703, 43704, 1>>,
     <<43710, 43711, 1>>, <<43713, 43713, 1>>, <<43741, 43741, 1>>,
     <<43756, 43757, 1>>, <<43763, 43764, 1>>, <<43766, 43766, 1>>,
     <<43867, 43871, 1>>, <<43881, 43883, 1>>, <<44005, 44005, 1>>,
     <<44008, 44008, 1>>, <<44013, 44013, 1>>, <<64286, 64286, 1>>,
     <<64434, 64450, 1>>, <<65024, 65039, 1>>, <<65043, 65043, 1>>,
     <<65056, 65071, 1>>, <<65106, 65106, 1>>, <<65109, 65109, 1>>,
     <<65279, 65279, 1>>, <<65287, 65287, 1>>, <<65294, 65294, 1>>,
     <<65306, 65306, 1>>, <<65342, 65344, 2>>, <<65392, 65392, 1>>,
     <<65438, 65439, 1>>, <<65507, 65507, 1>>, <<65529, 65531, 1>>,
     <<66045, 66045, 1>>, <<66272, 66272, 1>>, <<66422, 66426, 1>>,
     <<67456, 67461, 1>>, <<67463, 67504, 1>>, <<67506, 67514, 1>>,
     <<68097, 68099, 1>>, <<68101, 68102, 1>>, <<68108, 68111, 1>>,
     <<68152, 68154, 1>>, <<68159, 68159, 1>>, <<68325, 68326, 1>>,
     <<68900, 68903, 1>>, <<69291, 69292, 1>>, <<69446, 69456, 1>>,
     <<69506, 69509, 1>>, <<69633, 69633, 1>>, <<69688, 69702, 1>>,
     <<69744, 69744, 1>>, <<69747, 69748, 1>>, <<69759, 69761, 1>>,
     <<69811, 69814, 1>>, <<69817, 69818, 1>>, <<69821, 69821, 1>>,
     <<69826, 69826, 1>>, <<69837, 69837, 1>>, <<69888, 69890, 1>>,
     <<69927, 69931, 1>>, <<69933, 69940, 1>>, <<70003, 70003, 1>>,
     <<70016, 70017, 1>>, <<70070, 70078, 1>>, <<70089, 70092, 1>>,
     <<70095, 70095, 1>>, <<70191, 70193, 1>>, <<70196, 70198, 2>>,
     <<70199, 70199, 1>>, <<70206, 70206, 1>>, <<70367, 70367, 1>>,
     <<70371, 70378, 1>>, <<70400, 70401, 1>>, <<70459, 70460, 1>>,
     <<70464, 70464, 1>>, <<70502, 70508, 1>>, <<70512, 70516, 1>>,
     <<70712, 70719, 1>>, <<70722, 70724, 1>>, <<70726, 70726, 1>>,
     <<70750, 70750, 1>>, <<70835, 70840, 1>>, <<70842, 70842, 1>>,
     <<70847, 70848, 1>>, <<70850, 70851, 1>>, <<71090, 71093, 1>>,
     <<71100, 71101, 1>>, <<71103, 71104, 1>>, <<71132, 71133, 1>>,
     <<71219, 71226, 1>>, <<71229, 71231, 2>>, <<71232, 71232, 1>>,
     <<71339, 71341, 2>>, <<71344, 71349, 1>>, <<71351, 71351, 1>>,
     <<71453, 71455, 1>>, <<71458, 71461, 1>>, <<71463, 71467, 1>>,
     <<71727, 71735, 1>>, <<71737, 71738, 1>>, <<71995, 71996, 1>>,
     <<71998, 71998, 1>>, <<72003, 72003, 1>>, <<72148, 72151, 1>>,
     <<72154, 72155, 1>>, <<72160, 72160, 1>>, <<72193, 72202, 1>>,
     <<72243, 72248, 1>>, <<72251, 72254, 1>>, <<72263, 72263, 1>>,
     <<72273, 72278, 1>>, <<72281, 72283, 1>>, <<72330, 72342, 1>>,
     <<72344, 72345, 1>>, <<72752, 72758, 1>>, <<72760, 72765, 1>>,
     <<72767, 72767, 1>>, <<72850, 72871, 1>>, <<72874, 72880, 1>>,
     <<72882, 72883, 1>>, <<72885, 72886, 1>>, <<73009, 73014, 1>>,
     <<73018, 73020, 2>>, <<73021, 73023, 2>>, <<73024, 73029, 1>>,
     <<73031, 73031, 1>>, <<73104, 73105, 1>>, <<73109, 73111, 2>>,
     <<73459, 73460, 1>>, <<78896, 78904, 1>>, <<92912, 92916, 1>>,
     <<92976, 92982, 1>>, <<92992, 92995, 1>>, <<94031, 94031, 1>>,
     <<94095, 94111, 1>>, <<94176, 94177, 1>>, <<94179, 94180, 1>>,
     <<110576, 110579, 1>>, <<110581, 110587, 1>>, <<110589, 110590, 1>>,
     <<113821, 113822, 1>>, <<113824, 113827, 1>>, <<118528, 118573, 1>>,
     <<118576, 118598, 1>>, <<119143, 119145, 1>>, <<119155, 119170, 1>>,
     <<119173, 119179, 1>>, <<119210, 119213, 1>>, <<119362, 119364, 1>>,
     <<121344, 121398, 1>>, <<121403, 121452, 1>>, <<121461, 121461, 1>>,
     <<121476, 121476, 1>>, <<121499, 121503, 1>>, <<121505, 121519, 1>>,
     <<122880, 122886, 1>>, <<122888, 122904, 1>>, <<122907, 122913, 1>>,
     <<122915, 122916, 1>>, <<122918, 122922, 1>>, <<123184, 123197, 1>>,
     <<123566, 123566, 1>>, <<123628, 123631, 1>>, <<125136, 125142, 1>>,
     <<125252, 125259, 1>>, <<127995, 127999, 1>>, <<917505, 917505, 1>>,
     <<917536, 917631, 1>>, <<917760, 917999, 1>>}

CasedRuns ==
    {<<65, 90, 1>>, <<97, 122, 1>>, <<170, 170, 1>>, <<181, 181, 1>>,
     <<186, 186, 1>>, <<192, 214, 1>>, <<216, 246, 1>>, <<248, 442, 1>>,
     <<444, 447, 1>>, <<452, 659, 1>>, <<661, 696, 1>>, <<704, 705, 1>>,
     <<736, 740, 1>>, <<837, 837, 1>>, <<880, 883, 1>>, <<886, 887, 1>>,
     <<890, 893, 1>>, <<895, 895, 1>>, <<902, 904, 2>>, <<905, 906, 1>>,
     <<908, 910, 2>>, <<911, 929, 1>>, <<931, 1013, 1>>,
     <<1015, 1153, 1>>, <<1162, 1327, 1>>, <<1329, 1366, 1>>,
     <<1376, 1416, 1>>, <<4256, 4293, 1>>, <<4295, 4295, 1>>,
     <<4301, 4301, 1>>, <<4304, 4346, 1>>, <<4349, 4351, 1>>,
     <<5024, 5109, 1>>, <<5112, 5117, 1>>, <<7296, 7304, 1>>,
     <<7312, 7354, 1>>, <<7357, 7359, 1>>, <<7424, 7615, 1>>,
     <<7680, 7957, 1>>, <<7960, 7965, 1>>, <<7968, 8005, 1>>,
     <<8008, 8013, 1>>, <<8016, 8023, 1>>, <<8025, 8031, 2>>,
     <<8032, 8061, 1>>, <<8064, 8116, 1>>, <<8118, 8124, 1>>,
     <<8126, 8126, 1>>, <<8130, 8132, 1>>, <<8134, 8140, 1>>,
     <<8144, 8147, 1>>, <<8150, 8155, 1>>, <<8160, 8172, 1>>,
     <<8178, 8180, 1>>, <<8182, 8188, 1>>, <<8305, 8305, 1>>,
     <<8319, 8319, 1>>, <<8336, 8348, 1>>, <<8450, 8450, 1>>,
     <<8455, 8455, 1>>, <<8458, 8467, 1>>, <<8469, 8469, 1>>,
     <<8473, 8477, 1>>, <<8484, 8490, 2>>, <<8491, 8493, 1>>,
     <<8495, 8500, 1>>, <<8505, 8505, 1>>, <<8508, 8511, 1>>,
     <<8517, 8521, 1>>, <<8526, 8526, 1>>, <<8544, 8575, 1>>,
     <<8579, 8580, 1>>, <<9398, 9449, 1>>, <<11264, 11492, 1>>,
     <<11499, 11502, 1>>, <<11506, 11507, 1>>, <<11520, 11557, 1>>,
     <<11559, 11559, 1>>, <<11565, 11565, 1>>, <<42560, 42605, 1>>,
     <<42624, 42653, 1>>, <<42786, 42887, 1>>, <<42891, 42894, 1>>,
     <<42896, 42954, 1>>, <<42960, 42961, 1>>, <<42963, 42965, 2>>,
     <<42966, 42969, 1>>, <<42997, 42998, 1>>, <<43000, 43002, 1>>,
     <<43824, 43866, 1>>, <<43868, 43880, 1>>, <<43888, 43967, 1>>,
     <<64256, 64262, 1>>, <<64275, 64279, 1>>, <<65313, 65338, 1>>,
     <<65345, 65370, 1>>, <<66560, 66639, 1>>, <<66736, 66771, 1>>,
     <<66776, 66811, 1>>, <<66928, 66938, 1>>, <<66940, 66954, 1>>,
     <<66956, 66962, 1>>, <<66964, 66965, 1>>, <<66967, 66977, 1>>,
     <<66979, 66993, 1>>, <<66995, 67001, 1>>, <<67003, 67004, 1>>,
     <<67456, 67456, 1>>, <<67459, 67461, 1>>, <<67463, 67504, 1>>,
     <<67506, 67514, 1>>, <<68736, 68786, 1>>, <<68800, 68850, 1>>,
     <<71840, 71903, 1>>, <<93760, 93823, 1>>, <<119808, 119892, 1>>,
     <<119894, 119964, 1>>, <<119966, 119967, 1>>, <<119970, 119970, 1>>,
     <<119973, 119974, 1>>, <<119977, 119980, 1>>, <<119982, 119993, 1>>,
     <<119995, 119997, 2>>, <<119998, 120003, 1>>, <<120005, 120069, 1>>,
     <<120071, 120074, 1>>, <<120077, 120084, 1>>, <<120086, 120092, 1>>,
     <<120094, 120121, 1>>, <<120123, 120126, 1>>, <<120128, 120132, 1>>,
     <<120134, 120134, 1>>, <<120138, 120144, 1>>, <<120146, 120485, 1>>,
     <<120488, 120512, 1>>, <<120514, 120538, 1>>, <<120540, 120570, 1>>,
     <<120572, 120596, 1>>, <<120598, 120628, 1>>, <<120630, 120654, 1>>,
     <<120656, 120686, 1>>, <<120688, 120712, 1>>, <<120714, 120744, 1>>,
     <<120746, 120770, 1>>, <<120772, 120779, 1>>, <<122624, 122633, 1>>,
     <<122635, 122654, 1>>, <<125184, 125251, 1>>, <<127280, 127305, 1>>,
     <<127312, 127337, 1>>, <<127344, 127369, 1>>}

IsCaseIgnorable(c) == \E r \in CaseIgnorableRuns : InRun(c, r)
IsCased(c) == \E r \in CasedRuns : InRun(c, r)

\* The nearest place at or before pos (at or after pos) whose character is not
\* case-ignorable; 0 (Len(s) + 1) when there is none.
RECURSIVE back_over_ignorable(_, _)
back_over_ignorable(s, pos) ==
    IF pos >= 1 /\ IsCaseIgnorable(s[pos]) THEN back_over_ignorable(s, pos - 1) ELSE pos

RECURSIVE forth_over_ignorable(_, _)
forth_over_ignorable(s, pos) ==
    IF pos <= Len(s) /\ IsCaseIgnorable(s[pos]) THEN forth_over_ignorable(s, pos + 1)
    ELSE pos

final_sigma_between(s, b, f) ==
    /\ b >= 1
    /\ IsCased(s[b])
    /\ (f > Len(s) \/ ~IsCased(s[f]))

\* A capital sigma (931) becomes the final sigma (962) after a cased letter
\* that no cased letter follows, the small sigma (963) otherwise.
handle_capital_sigma(s, k) ==
    IF final_sigma_between(s, back_over_ignorable(s, k - 1),
                           forth_over_ignorable(s, k + 1))
    THEN 962 ELSE 963

\* The characters the k-th character of s becomes: 304 becomes two.
lower_at(s, k) ==
    IF s[k] = 931 THEN <<handle_capital_sigma(s, k)>>
    ELSE IF s[k] = 304 THEN <<105, 775>>
    ELSE <<LowerChar(s[k])>>

RECURSIVE lower_from(_, _)
lower_from(s, k) ==
    IF k > Len(s) THEN <<>> ELSE lower_at(s, k) \o lower_from(s, k + 1)

lower(s) == lower_from(s, 1)

RECURSIVE lstrip(_)
lstrip(s) == IF s # <<>> /\ IsSpace(Head(s)) THEN lstrip(Tail(s)) ELSE s

RECURSIVE rstrip(_)
rstrip(s) ==
    IF s # <<>> /\ IsSpace(s[Len(s)]) THEN rstrip(SubSeq(s, 1, Len(s) - 1)) ELSE s

strip(s) == rstrip(lstrip(s))

endswith(s, suffix) ==
    /\ Len(s) >= Len(suffix)
    /\ SubSeq(s, Len(s) - Len(suffix) + 1, Len(s)) = suffix

(***************************************************************************)
(* Ordered dictionaries (Python dict): a sequence of <<key, value>> pairs. *)
(***************************************************************************)
DictKeys(d) == [k \in 1..Len(d) |-> d[k][1]]
DictKeySet(d) == {d[k][1] : k \in 1..Len(d)}
DictSet(d, key, value) ==
    IF key \in DictKeySet(d)
    THEN [k \in 1..Len(d) |-> IF d[k][1] = key THEN <<key, value>> ELSE d[k]]
    ELSE Append(d, <<key, value>>)

(***************************************************************************)
(* The reference table of regions and the remote portal.                   *)
(***************************************************************************)
REGION_CODES_AND_NAMES == (5 :> "region05") @@ (77 :> "region77")
RequestedCodes == {5, 77, 100}

\* What the portal may answer to one request (status 0 in a recorded request:
\* no response came, the transport failed).
Statuses == {200, 204, 500}
Uids == {"uid1", "uid2"}
XlsxA == <<97, 46, 120, 108, 115, 120>>       \* a.xlsx
XlsxB == <<98, 46, 120, 108, 115, 120>>       \* b.xlsx
TxtA == <<97, 46, 116, 120, 116>>             \* a.txt
UpperA == <<97, 46, 88, 76, 83, 88>>          \* a.XLSX
Archives == {<<TxtA>>, <<XlsxA>>, <<TxtA, XlsxA>>, <<XlsxA, UpperA, XlsxB>>}
Timeouts == {3, 5}
(***************************************************************************)
(* str(n) for a natural number, as the characters of its decimal form.     *)
(***************************************************************************)
RECURSIVE str(_)
str(n) == IF n < 10 THEN <<48 + n>> ELSE Append(str(n \div 10), 48 + (n % 10))

(***************************************************************************)
(* GosUslugiAPIClient.get_licenses, first statement: the validation loop.  *)
(***************************************************************************)
\* The index of the first requested code that is not in the table, 0 when
\* every code is in it: where the loop raises.
first_absent_head_only(codes) ==
    IF Len(codes) > 0 /\ codes[1] \notin DOMAIN REGION_CODES_AND_NAMES THEN 1 ELSE 0

first_absent(codes) ==
    IF \E k \in 1..Len(codes) : codes[k] \notin DOMAIN REGION_CODES_AND_NAMES
    THEN CHOOSE k \in 1..Len(codes) :
            /\ codes[k] \notin DOMAIN REGION_CODES_AND_NAMES
            /\ \A l \in 1..(k - 1) : codes[l] \in DOMAIN REGION_CODES_AND_NAMES
    ELSE 0

get_licenses_validate ==
    /\ pc = "validate"
    /\ LET k == first_absent(region_codes) IN
         IF k # 0
         THEN /\ raised' = [type |-> "RegionCodeIsAbsentError",
                            region_code |-> region_codes[k]]
              /\ pc' = "raised"
         ELSE /\ raised' = raised
              /\ pc' = "license_uids"
    /\ UNCHANGED <<timeout, region_codes, i, j, license_uids, licenses_info,
                   requests_sent, error_log, gen, zip_files, workbooks>>
    /\ UNCHANGED <<rows_vars, row_vars, http_vars>>

(***************************************************************************)
(* HTTPClient: the session property and _make_request.  A session is known *)
(* by its number, the order it was made in.                                *)
(***************************************************************************)
Methods == {"GET", "POST", "PATCH", "PUT"}

\* How a call of _make_request ends: request.prepare() raises before the try
\* block is entered; session.send returns a response; session.send raises.
Outcomes == {"unprepared", "response", "raised"}

\* A session property that makes a new session at every reading.
session_is_new_always == TRUE

\* The session property makes a requests.Session: at every reading without
\* keep_alive, with keep_alive only while _session is not set.
session_is_new == ~keep_alive \/ http_session = 0

\* The session the property returns.
session == IF session_is_new THEN Len(sessions) + 1 ELSE http_session

\* The finally block of _make_request closes the session it used.
finally_closes == ~keep_alive

\* The caller reads the property client.session: a session is made as the
\* property makes it, kept in _session with keep_alive, and no request is sent.
session_read ==
    /\ http_session' = IF keep_alive THEN session ELSE http_session
    /\ sessions' = IF session_is_new
                   THEN Append(sessions, [closed |-> FALSE]) ELSE sessions
    /\ UNCHANGED <<keep_alive, http_calls>>

make_request(method, outcome) ==
    /\ http_session' = IF keep_alive THEN session ELSE http_session
    /\ sessions' =
          [k \in 1..(IF session_is_new THEN Len(sessions) + 1 ELSE Len(sessions)) |->
              [closed |-> \/ (k <= Len(sessions) /\ sessions[k].closed)
                          \/ (k = session /\ outcome # "unprepared" /\ finally_closes)]]
    /\ http_calls' = Append(http_calls,
          [method |-> method, outcome |-> outcome, session |-> session])
    /\ UNCHANGED keep_alive

(***************************************************************************)
(* GosUslugiAPIClient._get_license_uids: one turn of its loop, the request *)
(* going through HTTPClient.get with HTTPClient.timeout.                   *)
(***************************************************************************)
\* The code formatted as it is, with no padding.
url_region_code_unpadded(region_code) == str(region_code)

url_region_code(region_code) ==
    IF region_code < 10 THEN <<48>> \o str(region_code) ELSE str(region_code)

\* The timeout HTTPClient._make_request hands to session.send.
make_request_timeout == [bounded |-> TRUE, seconds |-> timeout]

LookupRequest(region_code, status) ==
    [kind |-> "license_uid",
     region_code |-> region_code,
     path |-> url_region_code(region_code),
     timeout |-> make_request_timeout,
     status |-> status]

\* The status test of the lookup loop: TRUE when the region is kept.
uid_obtained_any_2xx(status) == status >= 200 /\ status < 300

uid_obtained(status) == status = 200

get_license_uids_step(status, text) ==
    /\ pc = "license_uids"
    /\ i < Len(region_codes)
    /\ LET region_code == region_codes[i + 1] IN
         /\ requests_sent' = Append(requests_sent, LookupRequest(region_code, status))
         /\ i' = i + 1
         /\ IF uid_obtained(status)
            THEN /\ license_uids' =
                        DictSet(license_uids, REGION_CODES_AND_NAMES[region_code], text)
                 /\ error_log' = error_log
            ELSE /\ license_uids' = license_uids
                 /\ error_log' = Append(error_log,
                        [step |-> "license_uid", region |-> region_code])
    /\ pc' = IF i' = Len(region_codes) THEN "licenses_info" ELSE pc
    /\ UNCHANGED <<timeout, region_codes, raised, j, licenses_info, gen,
                   zip_files, workbooks>>
    /\ make_request("GET", "response")
    /\ UNCHANGED <<rows_vars, row_vars>>

\* A lookup loop that logs a failed transport and goes on to the next region.
get_license_uids_transport_error_swallowed ==
    /\ pc = "license_uids"
    /\ i < Len(region_codes)
    /\ requests_sent' = Append(requests_sent,
                               LookupRequest(region_codes[i + 1], 0))
    /\ error_log' = Append(error_log,
                           [step |-> "license_uid", region |-> region_codes[i + 1]])
    /\ i' = i + 1
    /\ pc' = IF i' = Len(region_codes) THEN "licenses_info" ELSE pc
    /\ UNCHANGED <<timeout, region_codes, raised, j, license_uids, licenses_info,
                   gen, zip_files, workbooks>>
    /\ make_request("GET", "raised")
    /\ UNCHANGED <<rows_vars, row_vars>>

\* session.send raises a RequestException: _make_request logs and re-raises.
get_license_uids_transport_error ==
    /\ pc = "license_uids"
    /\ i < Len(region_codes)
    /\ requests_sent' = Append(requests_sent,
                               LookupRequest(region_codes[i + 1], 0))
    /\ raised' = [type |-> "RequestException", step |-> "license_uid"]
    /\ pc' = "raised"
    /\ UNCHANGED <<timeout, region_codes, i, j, license_uids, licenses_info,
                   error_log, gen, zip_files, workbooks>>
    /\ make_request("GET", "raised")
    /\ UNCHANGED <<rows_vars, row_vars>>

\* An empty region_codes: the loop of _get_license_uids has no turn.
get_license_uids_empty ==
    /\ pc = "license_uids"
    /\ Len(region_codes) = 0
    /\ pc' = "licenses_info"
    /\ UNCHANGED <<timeout, region_codes, raised, i, j, license_uids,
                   licenses_info, requests_sent, error_log, gen, zip_files,
                   workbooks>>
    /\ UNCHANGED <<rows_vars, row_vars, http_vars>>

(***************************************************************************)
(* GosUslugiAPIClient._get_licenses_info: one turn of its loop, the        *)
(* request going through requests.get with no timeout argument.            *)
(***************************************************************************)
\* requests.get(url) is called without a timeout: the request is unbounded.
requests_get_timeout == [bounded |-> FALSE]

DownloadRequest(region_name, license_uid, status) ==
    [kind |-> "licenses_info",
     region_name |-> region_name,
     uid |-> license_uid,
     timeout |-> requests_get_timeout,
     status |-> status]

\* The status test of the download loop: TRUE when the region is kept.
info_obtained_always(status) == TRUE

info_obtained(status) == status = 200

get_licenses_info_step(status, content) ==
    /\ pc = "licenses_info"
    /\ j < Len(license_uids)
    /\ LET region_name == license_uids[j + 1][1]
           license_uid == license_uids[j + 1][2]
       IN
         /\ requests_sent' =
                Append(requests_sent, DownloadRequest(region_name, license_uid, status))
         /\ j' = j + 1
         /\ IF info_obtained(status)
            THEN /\ licenses_info' = DictSet(licenses_info, region_name, content)
                 /\ error_log' = error_log
            ELSE /\ licenses_info' = licenses_info
                 /\ error_log' = Append(error_log,
                        [step |-> "licenses_info", region |-> region_name])
    /\ UNCHANGED <<timeout, region_codes, pc, raised, i, license_uids, gen,
                   zip_files, workbooks>>
    /\ UNCHANGED <<rows_vars, row_vars, http_vars>>

get_licenses_info_transport_error ==
    /\ pc = "licenses_info"
    /\ j < Len(license_uids)
    /\ requests_sent' = Append(requests_sent,
          DownloadRequest(license_uids[j + 1][1], license_uids[j + 1][2], 0))
    /\ raised' = [type |-> "RequestException", step |-> "licenses_info"]
    /\ pc' = "raised"
    /\ UNCHANGED <<timeout, region_codes, i, j, license_uids, licenses_info,
                   error_log, gen, zip_files, workbooks>>
    /\ UNCHANGED <<rows_vars, row_vars, http_vars>>

(***************************************************************************)
(* get_licenses, last statement: the generator object is created and       *)
(* returned; none of its body has run.                                     *)
(***************************************************************************)
\* A return that does not wait for the downloads.
get_licenses_return_early ==
    /\ pc = "licenses_info"
    /\ gen' = [state |-> "created", archive |-> 0, member |-> 0, pulled |-> 0]
    /\ pc' = "returned"
    /\ UNCHANGED <<timeout, region_codes, raised, i, j, license_uids,
                   licenses_info, requests_sent, error_log, zip_files, workbooks>>
    /\ UNCHANGED <<rows_vars, row_vars, http_vars>>

get_licenses_return ==
    /\ pc = "licenses_info"
    /\ j = Len(license_uids)
    /\ gen' = [state |-> "created", archive |-> 0, member |-> 0, pulled |-> 0]
    /\ pc' = "returned"
    /\ UNCHANGED <<timeout, region_codes, raised, i, j, license_uids,
                   licenses_info, requests_sent, error_log, zip_files, workbooks>>
    /\ UNCHANGED <<rows_vars, row_vars, http_vars>>
(***************************************************************************)
(* GosUslugiAPIClient._get_workbooks_from_licenses_info: a generator.  One *)
(* pull runs its body from where it was suspended to the next yield (or to *)
(* the end).  archive/member give the place of the last yield; the         *)
(* archives opened on the way are reported in opened.                      *)
(***************************************************************************)
\* A test of the member name that ignores case.
is_xlsx_ignoring_case(name) == endswith(lower(name), <<46, 120, 108, 115, 120>>)

is_xlsx(name) == endswith(name, <<46, 120, 108, 115, 120>>)

namelist(info, archive) == IF archive = 0 THEN <<>> ELSE info[archive][2]

RECURSIVE run_to_yield(_, _, _)
run_to_yield(info, archive, member) ==
    IF member > Len(namelist(info, archive))
    THEN IF archive + 1 > Len(info)
         THEN [done |-> TRUE, archive |-> archive, member |-> member,
               opened |-> <<>>]
         ELSE LET rest == run_to_yield(info, archive + 1, 1)
              IN  [rest EXCEPT !.opened = <<archive + 1>> \o @]
    ELSE IF is_xlsx(namelist(info, archive)[member])
         THEN [done |-> FALSE, archive |-> archive, member |-> member,
               opened |-> <<>>]
         ELSE run_to_yield(info, archive, member + 1)

\* A body that opens the following archive before it yields.
resume_prefetching(info, archive, member) ==
    LET r == run_to_yield(info, archive, member + 1) IN
    IF ~r.done /\ r.archive < Len(info)
    THEN [r EXCEPT !.opened = @ \o <<r.archive + 1>>]
    ELSE r

\* A body that leaves the archive after its first yield.
resume_first_only(info, archive, member) ==
    run_to_yield(info, archive, Len(namelist(info, archive)) + 1)

resume(info, archive, member) == run_to_yield(info, archive, member + 1)

\* The body never closes a ZipFile.  A handle is closed only by its
\* finalizer, once the local zip_file no longer refers to it (it was rebound
\* to the next archive, or the generator finished or was closed); when the
\* finalizer runs, if ever, is up to the interpreter.  held is the place of
\* the handle zip_file still refers to, 0 when there is none.
opened_handles(info, opened) ==
    [k \in 1..Len(opened) |-> [region_name |-> info[opened[k]][1], open |-> TRUE]]

unreferenced(handles, held) ==
    {k \in 1..Len(handles) : k # held /\ handles[k].open}

finalize(handles, closing) ==
    [k \in 1..Len(handles) |->
        [handles[k] EXCEPT !.open = @ /\ k \notin closing]]

zip_files_after(handles, held) ==
    {finalize(handles, closing) : closing \in SUBSET unreferenced(handles, held)}

workbooks_next ==
    /\ pc = "returned"
    /\ gen.state \in {"created", "suspended"}
    /\ LET r == resume(licenses_info, gen.archive, gen.member) IN
         /\ zip_files' \in
                zip_files_after(zip_files \o opened_handles(licenses_info, r.opened),
                                IF r.done THEN 0
                                ELSE Len(zip_files) + Len(r.opened))
         /\ IF r.done
            THEN /\ gen' = [gen EXCEPT !.state = "done"]
                 /\ workbooks' = workbooks
            ELSE /\ gen' = [state |-> "suspended", archive |-> r.archive,
                            member |-> r.member, pulled |-> gen.pulled + 1]
                 /\ workbooks' = Append(workbooks,
                        [region_name |-> licenses_info[r.archive][1],
                         name |-> licenses_info[r.archive][2][r.member],
                         open |-> TRUE])
    /\ UNCHANGED <<timeout, region_codes, pc, raised, i, j, license_uids,
                   licenses_info, requests_sent, error_log>>
    /\ UNCHANGED <<rows_vars, row_vars, http_vars>>

\* The caller stops pulling: the generator object is closed (or collected).
\* Its body holds no try/finally and no with block, so nothing else runs.
workbooks_abandon ==
    /\ pc = "returned"
    /\ gen.state \in {"created", "suspended"}
    /\ gen' = [gen EXCEPT !.state = "closed"]
    /\ zip_files' \in zip_files_after(zip_files, 0)
    /\ UNCHANGED <<timeout, region_codes, pc, raised, i, j, license_uids,
                   licenses_info, requests_sent, error_log, workbooks>>
    /\ UNCHANGED <<rows_vars, row_vars, http_vars>>

(***************************************************************************)
(* The pipeline's specification.                                           *)
(***************************************************************************)
\* No generator yet.  exhausted: an earlier generator of the same Licenses
\* object ran to its end; pulled_dry: next() was called on this one after it
\* had finished.
rows_gen_none ==
    [state |-> "none", cursor |-> 0, exhausted |-> FALSE, pulled_dry |-> FALSE]

RowsIdle ==
    /\ worksheets = <<>>
    /\ rows_gen = rows_gen_none
    /\ rows_out = <<>>
    /\ rows_raised = NoError

RowIdle ==
    /\ cells = <<>>
    /\ record = [t |-> "unset"]

HTTPIdle ==
    /\ keep_alive = FALSE
    /\ http_session = 0
    /\ sessions = <<>>
    /\ http_calls = <<>>

PipelineIdle ==
    /\ timeout = 5
    /\ region_codes = <<>>
    /\ pc = "idle"
    /\ raised = NoError
    /\ i = 0
    /\ j = 0
    /\ license_uids = <<>>
    /\ licenses_info = <<>>
    /\ requests_sent = <<>>
    /\ error_log = <<>>
    /\ gen = [state |-> "none"]
    /\ zip_files = <<>>
    /\ workbooks = <<>>

Init ==
    /\ timeout \in Timeouts
    /\ region_codes \in SeqsUpTo(RequestedCodes, MaxCodes)
    /\ pc = "validate"
    /\ raised = NoError
    /\ i = 0
    /\ j = 0
    /\ license_uids = <<>>
    /\ licenses_info = <<>>
    /\ requests_sent = <<>>
    /\ error_log = <<>>
    /\ gen = [state |-> "none"]
    /\ zip_files = <<>>
    /\ workbooks = <<>>
    /\ RowsIdle
    /\ RowIdle
    /\ keep_alive \in BOOLEAN
    /\ http_session = 0
    /\ sessions = <<>>
    /\ http_calls = <<>>

Next ==
    \/ get_licenses_validate
    \/ \E status \in Statuses, text \in Uids :
          /\ (~uid_obtained(status) => text = "uid1")
          /\ get_license_uids_step(status, text)
    \/ get_license_uids_transport_error
    \/ get_license_uids_empty
    \/ \E status \in Statuses, content \in Archives :
          /\ (~info_obtained(status) => content = <<TxtA>>)
          /\ get_licenses_info_step(status, content)
    \/ get_licenses_info_transport_error
    \/ get_licenses_return
    \/ workbooks_next
    \/ workbooks_abandon

Spec == Init /\ [][Next]_vars
(***************************************************************************)
(* Python values of the row normalizer: None, str, int, bool, datetime.    *)
(***************************************************************************)
NoneValue == [t |-> "NoneType"]
StrValue(s) == [t |-> "str", v |-> s]
IntValue(n) == [t |-> "int", v |-> n]
BoolValue(b) == [t |-> "bool", v |-> b]
datetime(Y, m, d, H, M, S, us) ==
    [t |-> "datetime", year |-> Y, month |-> m, day |-> d,
     hour |-> H, minute |-> M, second |-> S, microsecond |-> us]
datetime_max == datetime(9999, 12, 31, 23, 59, 59, 999999)
Error(type) == [t |-> "error", type |-> type]
IsError(x) == x.t = "error"

\* bool(x) of a cell value or of a value __post_init__ has rewritten.
truthy(x) ==
    CASE x.t = "NoneType" -> FALSE
      [] x.t = "str" -> x.v # <<>>
      [] x.t = "int" -> x.v # 0
      [] x.t = "bool" -> x.v
      [] OTHER -> TRUE

(***************************************************************************)
(* datetime.strptime(text, format).  A format is a sequence of directives  *)
(* ("%d", "%m", "%Y", "%H", "%M", "%S"), literal characters and " " (one   *)
(* or more whitespace characters).  A directive takes the digit groups the *)
(* library's pattern for it takes; the whole text must be used up; the     *)
(* fields must then make a date the calendar has.                          *)
(***************************************************************************)
\* The characters \d matches and int() reads: the decimal digits of every
\* script, each script's ten in a row from its zero.
DigitZeros ==
    {48, 1632, 1776, 1984, 2406, 2534, 2662, 2790, 2918, 3046, 3174, 3302,
     3430, 3558, 3664, 3792, 3872, 4160, 4240, 6112, 6160, 6470, 6608,
     6784, 6800, 6992, 7088, 7232, 7248, 42528, 43216, 43264, 43472,
     43504, 43600, 44016, 65296, 66720, 68912, 69734, 69872, 69942, 70096,
     70384, 70736, 70864, 71248, 71360, 71472, 71904, 72016, 72784, 73040,
     73120, 92768, 92864, 93008, 120782, 120792, 120802, 120812, 120822,
     123200, 123632, 125264, 130032}

IsDigit(c) ==
    IF c < 128 THEN c >= 48 /\ c <= 57
    ELSE \E z \in DigitZeros : c >= z /\ c <= z + 9
digit_value(c) ==
    IF c < 128 THEN c - 48
    ELSE c - (CHOOSE z \in DigitZeros : c >= z /\ c <= z + 9)

RECURSIVE digits_value(_)
digits_value(s) ==
    IF s = <<>> THEN 0
    ELSE 10 * digits_value(SubSeq(s, 1, Len(s) - 1)) + digit_value(s[Len(s)])

\* int(s) of a token a directive has matched: int() strips whitespace.
int_of(s) == digits_value(strip(s))

IsDirective(f) == f \in {"%d", "%m", "%Y", "%H", "%M", "%S"}
literal_char == ("." :> 46) @@ (":" :> 58)

\* c is one of the ASCII digits lo..hi: the class [lo-hi] of a pattern.
in_class(c, lo, hi) == c >= 48 + lo /\ c <= 48 + hi

\* The patterns of the directives, alternative by alternative:
\*   %d  3[0-1]|[1-2]\d|0[1-9]|[1-9]| [1-9]      %m  1[0-2]|0[1-9]|[1-9]
\*   %Y  \d\d\d\d                                %H  2[0-3]|[0-1]\d|\d
\*   %M  [0-5]\d|\d                              %S  6[0-1]|[0-5]\d|\d
directive_accepts(f, tok) ==
    CASE f = "%d" ->
            \/ Len(tok) = 2 /\ tok[1] = 51 /\ in_class(tok[2], 0, 1)
            \/ Len(tok) = 2 /\ in_class(tok[1], 1, 2) /\ IsDigit(tok[2])
            \/ Len(tok) = 2 /\ tok[1] = 48 /\ in_class(tok[2], 1, 9)
            \/ Len(tok) = 1 /\ in_class(tok[1], 1, 9)
            \/ Len(tok) = 2 /\ tok[1] = 32 /\ in_class(tok[2], 1, 9)
      [] f = "%m" ->
            \/ Len(tok) = 2 /\ tok[1] = 49 /\ in_class(tok[2], 0, 2)
            \/ Len(tok) = 2 /\ tok[1] = 48 /\ in_class(tok[2], 1, 9)
            \/ Len(tok) = 1 /\ in_class(tok[1], 1, 9)
      [] f = "%Y" -> Len(tok) = 4 /\ \A k \in 1..4 : IsDigit(tok[k])
      [] f = "%H" ->
            \/ Len(tok) = 2 /\ tok[1] = 50 /\ in_class(tok[2], 0, 3)
            \/ Len(tok) = 2 /\ in_class(tok[1], 0, 1) /\ IsDigit(tok[2])
            \/ Len(tok) = 1 /\ IsDigit(tok[1])
      [] f = "%M" ->
            \/ Len(tok) = 2 /\ in_class(tok[1], 0, 5) /\ IsDigit(tok[2])
            \/ Len(tok) = 1 /\ IsDigit(tok[1])
      [] f = "%S" ->
            \/ Len(tok) = 2 /\ tok[1] = 54 /\ in_class(tok[2], 0, 1)
            \/ Len(tok) = 2 /\ in_class(tok[1], 0, 5) /\ IsDigit(tok[2])
            \/ Len(tok) = 1 /\ IsDigit(tok[1])

\* The ways to read text s by format fmt, each as the fields read.
RECURSIVE strptime_matches(_, _, _)
strptime_matches(fmt, s, found) ==
    IF fmt = <<>>
    THEN IF s = <<>> THEN {found} ELSE {}
    ELSE LET f == Head(fmt) IN
         IF IsDirective(f)
         THEN UNION {
                 IF /\ Len(s) >= w
                    /\ directive_accepts(f, SubSeq(s, 1, w))
                 THEN strptime_matches(Tail(fmt), SubSeq(s, w + 1, Len(s)),
                                       [found EXCEPT ![f] = int_of(SubSeq(s, 1, w))])
                 ELSE {} : w \in {1, 2, 4}}
         ELSE IF f = " "
         THEN IF s # <<>> /\ IsSpace(Head(s))
              THEN strptime_matches(Tail(fmt), lstrip(s), found)
              ELSE {}
         ELSE IF s # <<>> /\ Head(s) = literal_char[f]
              THEN strptime_matches(Tail(fmt), Tail(s), found)
              ELSE {}

is_leap(Y) == (Y % 4 = 0 /\ Y % 100 # 0) \/ Y % 400 = 0
days_in_month(Y, m) ==
    IF m = 2 THEN (IF is_leap(Y) THEN 29 ELSE 28)
    ELSE IF m \in {4, 6, 9, 11} THEN 30 ELSE 31

strptime_defaults ==
    [f \in {"%d", "%m", "%Y", "%H", "%M", "%S"} |->
        IF f = "%Y" THEN 1900 ELSE IF f \in {"%d", "%m"} THEN 1 ELSE 0]

\* The datetime of the fields read, when the calendar has it.
strptime_build(r) ==
    IF \/ r["%Y"] < 1
       \/ r["%d"] > days_in_month(r["%Y"], r["%m"])
       \/ r["%S"] > 59
    THEN Error("ValueError")
    ELSE datetime(r["%Y"], r["%m"], r["%d"], r["%H"], r["%M"], r["%S"], 0)

strptime_found(found) ==
    IF found = {} THEN Error("ValueError")
    ELSE strptime_build(CHOOSE r \in found : TRUE)

strptime(value, fmt) ==
    IF value.t # "str" THEN Error("TypeError")
    ELSE strptime_found(strptime_matches(fmt, value.v, strptime_defaults))

(***************************************************************************)
(* LicensesFileRow: the dataclass and its __post_init__.                   *)
(***************************************************************************)
\* The fields in declaration order; the first two come from _make_gis_gkh_row.
FieldNames ==
    <<"number_in_file", "house_fias_id", "license_number", "license_date",
      "license_status", "license_included_date", "order_number", "order_date",
      "lisence_juristic_address", "license_holder_uid", "additional_info",
      "license_holder_name", "inn", "ogrn", "mkd_address",
      "gos_uslugi_house_code", "mkd_included_register_date",
      "mkd_begin_management_date", "mkd_end_management_date",
      "mkd_excluded_register_date", "mkd_excluded_reason", "state_198_info",
      "is_information_in_register">>

FieldSet == {FieldNames[k] : k \in 1..Len(FieldNames)}

\* number_in_file and house_fias_id are declared without a default.
MISSING == [t |-> "MISSING"]

field_default(name) ==
    IF name \in {"number_in_file", "house_fias_id"} THEN MISSING
    ELSE IF name \in {"mkd_included_register_date", "mkd_begin_management_date",
                 "mkd_end_management_date", "mkd_excluded_register_date",
                 "is_information_in_register"}
    THEN NoneValue
    ELSE StrValue(<<>>)

datetime_format_fields == {"mkd_excluded_register_date", "mkd_included_register_date"}
date_format_fields == {"mkd_end_management_date", "mkd_begin_management_date"}
\* 'Размещена': the mark with its capital letter kept.
in_register_mark_capitalized ==
    StrValue(<<1056, 1072, 1079, 1084, 1077, 1097, 1077, 1085, 1072>>)
\* 'размещена'
in_register_mark == StrValue(<<1088, 1072, 1079, 1084, 1077, 1097, 1077, 1085, 1072>>)
\* 'действующая'
active_license_status ==
    StrValue(<<1076, 1077, 1081, 1089, 1090, 1074, 1091, 1102, 1097, 1072, 1103>>)

\* '%d.%m.%Y %H:%M:%S' and '%d.%m.%Y'
DATETIME_FORMAT == <<"%d", ".", "%m", ".", "%Y", " ", "%H", ":", "%M", ":", "%S">>
DATE_FORMAT_month_first == <<"%m", ".", "%d", ".", "%Y">>
DATE_FORMAT == <<"%d", ".", "%m", ".", "%Y">>

\* One turn of the loop of __post_init__, statement by statement: the text is
\* trimmed and lowercased, a date field is parsed or defaulted, the register
\* flag is compared with the mark.
\* A first step that leaves the text as it is in the cell.
post_init_text_verbatim(raw) == raw

post_init_text(raw) ==
    IF raw.t = "str" THEN StrValue(lower(strip(raw.v))) ELSE raw

field_format(name) ==
    IF name \in datetime_format_fields THEN DATETIME_FORMAT ELSE DATE_FORMAT

parse_or_max(field_value, fmt) ==
    IF truthy(field_value) THEN strptime(field_value, fmt) ELSE datetime_max

post_init_date(name, field_value) ==
    IF name \in datetime_format_fields \cup date_format_fields
    THEN parse_or_max(field_value, field_format(name))
    ELSE field_value

post_init_mark(name, field_value) ==
    IF name = "is_information_in_register" /\ ~IsError(field_value)
    THEN BoolValue(field_value = in_register_mark)
    ELSE field_value

post_init_field(name, raw) ==
    post_init_mark(name, post_init_date(name, post_init_text(raw)))

\* The generated __init__: the arguments are bound to the fields in order,
\* the fields left over take their defaults.  Too many arguments is a
\* TypeError, and so is a field left over that has no default.
bind_fields(args) ==
    IF \/ Len(args) > Len(FieldNames)
       \/ \E k \in (Len(args) + 1)..Len(FieldNames) :
             field_default(FieldNames[k]) = MISSING
    THEN Error("TypeError")
    ELSE [t |-> "bound",
          fields |-> [k \in 1..Len(FieldNames) |->
                         IF k <= Len(args) THEN args[k]
                         ELSE field_default(FieldNames[k])]]

\* The object once every field is set, or the first error raised on the way.
post_init_result(done) ==
    IF \E k \in 1..Len(FieldNames) : IsError(done[k])
    THEN done[CHOOSE k \in 1..Len(FieldNames) :
                 /\ IsError(done[k])
                 /\ \A l \in 1..(k - 1) : ~IsError(done[l])]
    ELSE [name \in FieldSet \cup {"t"} |->
             IF name = "t" THEN "LicensesFileRow"
             ELSE done[CHOOSE k \in 1..Len(FieldNames) : FieldNames[k] = name]]

post_init(bound) ==
    post_init_result([k \in 1..Len(FieldNames) |->
                         post_init_field(FieldNames[k], bound[k])])

\* __post_init__ runs once __init__ has bound every field.
post_init_of_bound(bound) ==
    IF IsError(bound) THEN bound ELSE post_init(bound.fields)

\* LicensesFileRow(*args).
LicensesFileRow(args) == post_init_of_bound(bind_fields(args))

(***************************************************************************)
(* _make_gis_gkh_row(row).  A worksheet row is a tuple of cells, as the     *)
(* worksheet of a workbook loaded with read_only=True hands them out: a    *)
(* ReadOnlyCell has a row and a value; EMPTY_CELL, the filler that stands  *)
(* for a cell absent from the sheet data, has the value None and no row    *)
(* attribute.                                                              *)
(***************************************************************************)
EMPTY_CELL == [t |-> "EmptyCell"]
ReadOnlyCell(row, value) == [t |-> "ReadOnlyCell", row |-> row, value |-> value]

\* cell.value
cell_value_of(cell) == IF cell.t = "EmptyCell" THEN NoneValue ELSE cell.value

\* A slice that drops only the last cell.
drop_last_one(values) ==
    IF Len(values) <= 1 THEN <<>> ELSE SubSeq(values, 1, Len(values) - 1)

drop_last_two(values) ==
    IF Len(values) <= 2 THEN <<>> ELSE SubSeq(values, 1, Len(values) - 2)

\* row[0] of a row: its first cell, IndexError when the row has no cell.
first_cell(row) == IF row = <<>> THEN Error("IndexError") ELSE row[1]

\* row[0].row, cell being what row[0] came to: the IndexError of row[0], the
\* AttributeError of .row on the filler, or the row of the cell.
row_number_of(cell) ==
    IF IsError(cell) THEN cell
    ELSE IF cell.t = "EmptyCell" THEN Error("AttributeError")
    ELSE IntValue(cell.row)

\* row_number = row[0].row comes first: when it raises, LicensesFileRow is not
\* called.
make_gis_gkh_row(row) ==
    IF IsError(row_number_of(first_cell(row))) THEN row_number_of(first_cell(row))
    ELSE LET row_number == row_number_of(first_cell(row))
             values_from_all_cells == [k \in 1..Len(row) |-> cell_value_of(row[k])]
             not_empty_values == drop_last_two(values_from_all_cells)
             house_fias_id_stub == StrValue(<<>>)
         IN  LicensesFileRow(<<row_number, house_fias_id_stub>> \o not_empty_values)

(***************************************************************************)
(* _skip_header_in_license_rows(license_rows): license_rows is the row     *)
(* iterator of the sheet, cursor the number of rows it has handed out.     *)
(* The result is the iterator's position when the function returns, or the *)
(* error that left it.                                                     *)
(***************************************************************************)
\* 'номер лицензии'
HEADER_TEXT == <<1085, 1086, 1084, 1077, 1088, 32, 1083, 1080, 1094, 1077, 1085, 1079, 1080, 1080>>

\* cell_value and cell_value.strip().lower() == 'номер лицензии'
is_header_cell(cell_value) ==
    IF ~truthy(cell_value) THEN "no"
    ELSE IF cell_value.t # "str" THEN "AttributeError"
    ELSE IF lower(strip(cell_value.v)) = HEADER_TEXT THEN "yes" ELSE "no"

\* What one turn of the loop comes to on a row: cell_value = row[0].value
\* raises IndexError on a row with no cell, else the condition of the if.
header_test(row) ==
    IF IsError(first_cell(row)) THEN "IndexError"
    ELSE is_header_cell(cell_value_of(first_cell(row)))

RECURSIVE skip_header_in_license_rows(_, _)
\* One turn of the loop, test being what it came to on the row handed out.
skip_header_turn(sheet, cursor, test) ==
    IF test = "yes" THEN [cursor |-> cursor + 1, error |-> NoError]
    ELSE IF test = "no" THEN skip_header_in_license_rows(sheet, cursor + 1)
    ELSE [cursor |-> cursor + 1, error |-> Error(test)]

skip_header_in_license_rows(sheet, cursor) ==
    IF cursor >= Len(sheet) THEN [cursor |-> cursor, error |-> NoError]
    ELSE skip_header_turn(sheet, cursor, header_test(sheet[cursor + 1]))

(***************************************************************************)
(* Licenses.rows: a generator.  rows_body is what one pull runs: from the  *)
(* start of the body (started = FALSE) or from the yield it was suspended  *)
(* at, to the next yield, to the end of the body, or to the raise.         *)
(***************************************************************************)
\* One turn of the for loop: the row is built and yielded, or the error raised.
rows_turn(made, cursor) ==
    IF IsError(made)
    THEN [outcome |-> "raise", cursor |-> cursor, value |-> made]
    ELSE [outcome |-> "yield", cursor |-> cursor, value |-> made]

\* A loop that passes over the rows it cannot build.
RECURSIVE rows_loop_skipping_errors(_, _)
rows_loop_skipping_errors(sheet, cursor) ==
    IF cursor >= Len(sheet)
    THEN [outcome |-> "stop", cursor |-> cursor, value |-> NoneValue]
    ELSE IF IsError(make_gis_gkh_row(sheet[cursor + 1]))
    THEN rows_loop_skipping_errors(sheet, cursor + 1)
    ELSE rows_turn(make_gis_gkh_row(sheet[cursor + 1]), cursor + 1)

\* The for loop over what is left of the row iterator.
rows_loop(sheet, cursor) ==
    IF cursor >= Len(sheet)
    THEN [outcome |-> "stop", cursor |-> cursor, value |-> NoneValue]
    ELSE rows_turn(make_gis_gkh_row(sheet[cursor + 1]), cursor + 1)

rows_after_skip(sheet, skipped) ==
    IF skipped.error # NoError
    THEN [outcome |-> "raise", cursor |-> skipped.cursor, value |-> skipped.error]
    ELSE rows_loop(sheet, skipped.cursor)

\* A start that takes the last worksheet of the workbook.
rows_start_last_sheet(sheets) ==
    IF sheets = <<>>
    THEN [outcome |-> "raise", cursor |-> 0,
          value |-> Error("WorksheetAbsentError")]
    ELSE rows_after_skip(sheets[Len(sheets)],
                         skip_header_in_license_rows(sheets[Len(sheets)], 0))

rows_start(sheets) ==
    IF sheets = <<>>
    THEN [outcome |-> "raise", cursor |-> 0,
          value |-> Error("WorksheetAbsentError")]
    ELSE rows_after_skip(sheets[1], skip_header_in_license_rows(sheets[1], 0))

rows_body(sheets, started, cursor) ==
    IF started THEN rows_loop(sheets[1], cursor) ELSE rows_start(sheets)

\* Reading the property: a new generator object is made, its body has not
\* run.  The body evaluates worksheets[0].rows itself, so each generator
\* walks the sheet from its first row.
rows_access ==
    /\ rows_gen' = [state |-> "created", cursor |-> 0,
                    exhausted |-> \/ rows_gen.exhausted
                                  \/ (rows_gen.state = "done" /\ rows_raised = NoError),
                    pulled_dry |-> FALSE]
    /\ rows_out' = <<>>
    /\ rows_raised' = NoError
    /\ UNCHANGED worksheets
    /\ UNCHANGED <<pipeline_vars, row_vars, http_vars>>

\* next() on the generator: r is what the body did.
rows_deliver(r) ==
    /\ rows_gen' = [rows_gen EXCEPT
                        !.state = IF r.outcome = "yield" THEN "suspended" ELSE "done",
                        !.cursor = r.cursor]
    /\ rows_out' = IF r.outcome = "yield" THEN Append(rows_out, r.value)
                   ELSE rows_out
    /\ rows_raised' = IF r.outcome = "raise" THEN r.value ELSE NoError

rows_next ==
    /\ rows_gen.state \in {"created", "suspended"}
    /\ rows_deliver(rows_body(worksheets, rows_gen.state = "suspended",
                              rows_gen.cursor))
    /\ UNCHANGED worksheets
    /\ UNCHANGED <<pipeline_vars, row_vars, http_vars>>

\* A finished generator that starts its body again when it is pulled.
rows_next_finished_restarting ==
    /\ rows_gen.state = "done"
    /\ rows_gen' = [rows_gen EXCEPT !.pulled_dry = TRUE]
    /\ rows_out' = IF rows_start(worksheets).outcome = "yield"
                   THEN Append(rows_out, rows_start(worksheets).value)
                   ELSE rows_out
    /\ UNCHANGED <<worksheets, rows_raised>>
    /\ UNCHANGED <<pipeline_vars, row_vars, http_vars>>

\* next() on a generator that has finished (by running to its end or by a
\* raise): StopIteration, no statement of the body runs.
rows_next_finished ==
    /\ rows_gen.state = "done"
    /\ rows_gen' = [rows_gen EXCEPT !.pulled_dry = TRUE]
    /\ UNCHANGED <<worksheets, rows_out, rows_raised>>
    /\ UNCHANGED <<pipeline_vars, row_vars, http_vars>>

(***************************************************************************)
(* Worksheets the row normalizer is run on.                                *)
(***************************************************************************)
\* ' Номер Лицензии '
TextHeaderCell == StrValue(<<32, 1053, 1086, 1084, 1077, 1088, 32, 1051, 1080, 1094, 1077, 1085, 1079, 1080, 1080, 32>>)
\* '077-000123'
TextLicense == StrValue(<<48, 55, 55, 45, 48, 48, 48, 49, 50, 51>>)
\* 'Действующая'
TextActive == StrValue(<<1044, 1077, 1081, 1089, 1090, 1074, 1091, 1102, 1097, 1072, 1103>>)
\* '  Размещена  '
TextInRegister == StrValue(<<32, 32, 1056, 1072, 1079, 1084, 1077, 1097, 1077, 1085, 1072, 32, 32>>)
\* 'размещена'
TextInRegisterPlain == StrValue(<<1088, 1072, 1079, 1084, 1077, 1097, 1077, 1085, 1072>>)
\* 'не размещена'
TextNotInRegister == StrValue(<<1085, 1077, 32, 1088, 1072, 1079, 1084, 1077, 1097, 1077, 1085, 1072>>)
\* '   '
TextBlank == StrValue(<<32, 32, 32>>)
\* '01.02.2020'
TextDate == StrValue(<<48, 49, 46, 48, 50, 46, 50, 48, 50, 48>>)
\* ' 29.02.2000\t'
TextDatePadded == StrValue(<<32, 50, 57, 46, 48, 50, 46, 50, 48, 48, 48, 9>>)
\* '1.2.2020'
TextDateShort == StrValue(<<49, 46, 50, 46, 50, 48, 50, 48>>)
\* '31.02.2021'
TextDateNoSuchDay == StrValue(<<51, 49, 46, 48, 50, 46, 50, 48, 50, 49>>)
\* '2020-02-01'
TextDateIso == StrValue(<<50, 48, 50, 48, 45, 48, 50, 45, 48, 49>>)
\* '01.02.2020 10:20:30'
TextDatetime == StrValue(<<48, 49, 46, 48, 50, 46, 50, 48, 50, 48, 32, 49, 48, 58, 50, 48, 58, 51, 48>>)
\* ' 31.12.1999  23:59:59 '
TextDatetimePadded == StrValue(<<32, 51, 49, 46, 49, 50, 46, 49, 57, 57, 57, 32, 32, 50, 51, 58, 53, 57, 58, 53, 57, 32>>)
\* '01.02.2020 24:00:00'
TextDatetimeBadHour == StrValue(<<48, 49, 46, 48, 50, 46, 50, 48, 50, 48, 32, 50, 52, 58, 48, 48, 58, 48, 48>>)
CellX == StrValue(<<120>>)

\* The values of a 23-cell row: 21 mapped columns and the two trailing ones.
FullRow(number, status, included, begin, end, excluded, in_register) ==
    <<number, CellX, status, CellX, NoneValue, CellX, CellX, CellX, NoneValue,
      CellX, CellX, CellX, CellX, CellX, included, begin, end, excluded,
      CellX, NoneValue, in_register, CellX, NoneValue>>

\* The contents of rows, cell by cell: a value stands for a ReadOnlyCell that
\* holds it, EMPTY_CELL for a cell absent from the sheet data.
RowBlank == <<NoneValue, NoneValue, NoneValue>>
\* A row whose first cell is absent and whose later cells are filled.
RowNoFirstCell == <<EMPTY_CELL, CellX, CellX, CellX>>
RowNumber == <<IntValue(7), NoneValue, NoneValue>>
RowHeader == <<TextHeaderCell, CellX, CellX, CellX>>
RowData ==
    FullRow(TextLicense, TextActive, TextDatetime, TextDate, NoneValue,
            NoneValue, TextInRegister)
RowBadDate ==
    FullRow(TextLicense, TextActive, TextDatetime, TextDateIso, NoneValue,
            NoneValue, TextNotInRegister)

\* <<>> is the row with no cell that a read-only worksheet gives for an empty
\* row.
SheetRows == {<<>>, RowBlank, RowNoFirstCell, RowNumber, RowHeader, RowData, RowBadDate}

\* The row at physical index n with the given contents.
row_at(n, contents) ==
    [k \in 1..Len(contents) |->
        IF contents[k] = EMPTY_CELL THEN EMPTY_CELL
        ELSE ReadOnlyCell(n, contents[k])]

\* A sheet gives the cells of each row its physical index, counted from 1.
sheet_of(rows) == [k \in 1..Len(rows) |-> row_at(k, rows[k])]

Sheets == {sheet_of(v) : v \in SeqsUpTo(SheetRows, MaxRows)}
\* No worksheet, one worksheet, or two of which the second is another sheet.
Workbooks ==
    {<<>>} \cup {<<sh>> : sh \in Sheets}
    \cup {<<sh, sheet_of(<<RowHeader, RowData, RowData>>)>> : sh \in Sheets}

InitRows ==
    /\ PipelineIdle
    /\ HTTPIdle
    /\ RowIdle
    /\ worksheets \in Workbooks
    /\ rows_gen = rows_gen_none
    /\ rows_out = <<>>
    /\ rows_raised = NoError

NextRows ==
    \/ rows_access
    \/ rows_next
    \/ rows_next_finished

SpecRows == InitRows /\ [][NextRows]_vars

(***************************************************************************)
(* The row constructor on its own: _make_gis_gkh_row applied to one row.   *)
(***************************************************************************)
Unset == [t |-> "unset"]

StatusCells == {TextActive, TextInRegisterPlain, TextInRegister}
RegisterCells ==
    {TextInRegister, TextInRegisterPlain, TextNotInRegister, TextActive, NoneValue}
IncludedCells ==
    {NoneValue, StrValue(<<>>), TextBlank, TextDatetime, TextDatetimePadded,
     TextDate, TextDatetimeBadHour}
BeginCells ==
    {NoneValue, TextBlank, TextDate, TextDatePadded, TextDateShort,
     TextDateNoSuchDay, TextDateIso, TextDatetime}
EndCells == {NoneValue, EMPTY_CELL, TextDate, TextDateIso}
ExcludedCells == {NoneValue, TextBlank, TextDatetime}
\* Rows cut short: 3, 17 and 19 values are left once the last two are dropped.
ShortWidths == {5, 19, 21}

RowInputs ==
    {FullRow(TextLicense, st, inc, beg, en, exc, reg) :
        st \in StatusCells, inc \in IncludedCells, beg \in BeginCells,
        en \in EndCells, exc \in ExcludedCells, reg \in RegisterCells}
    \cup
    {SubSeq(FullRow(TextLicense, TextInRegister, inc, beg, TextDate,
                    TextDatetime, TextInRegister), 1, w) :
        inc \in IncludedCells, beg \in BeginCells, w \in ShortWidths}
    \cup
    {FullRow(EMPTY_CELL, TextActive, inc, beg, NoneValue, NoneValue,
             TextInRegister) :
        inc \in IncludedCells, beg \in BeginCells}
    \cup
    {<<>>, RowNoFirstCell}

make_gis_gkh_row_call ==
    /\ record = Unset
    /\ record' = make_gis_gkh_row(cells)
    /\ UNCHANGED cells
    /\ UNCHANGED <<pipeline_vars, rows_vars, http_vars>>

InitRow ==
    /\ PipelineIdle
    /\ HTTPIdle
    /\ RowsIdle
    /\ cells \in {row_at(n, v) : n \in {2, 9}, v \in RowInputs}
    /\ record = Unset

NextRow == make_gis_gkh_row_call

SpecRow == InitRow /\ [][NextRow]_vars

(***************************************************************************)
(* HTTPClient on its own: any sequence of get, post, patch and put calls.  *)
(***************************************************************************)
http_request(method, outcome) ==
    /\ Len(http_calls) < MaxRequests
    /\ make_request(method, outcome)
    /\ UNCHANGED <<pipeline_vars, rows_vars, row_vars>>

InitHTTP ==
    /\ PipelineIdle
    /\ RowsIdle
    /\ RowIdle
    /\ keep_alive \in BOOLEAN
    /\ http_session = 0
    /\ sessions = <<>>
    /\ http_calls = <<>>

\* The property read from outside the client.
http_session_read ==
    /\ Len(sessions) < MaxRequests
    /\ session_read
    /\ UNCHANGED <<pipeline_vars, rows_vars, row_vars>>

NextHTTP ==
    \/ \E method \in Methods, outcome \in Outcomes : http_request(method, outcome)
    \/ http_session_read

SpecHTTP == InitHTTP /\ [][NextHTTP]_vars

(***************************************************************************)
(* Properties of the row normalizer.                                       *)
(***************************************************************************)
\* The first worksheet, and the index of its first row whose first cell,
\* trimmed and lowercased, is the header text (0: there is none).
FirstSheet == worksheets[1]
\* The values a row shows cell by cell: a cell absent from the sheet data
\* shows None.
Values(row) ==
    [k \in 1..Len(row) |->
        IF row[k].t = "ReadOnlyCell" THEN row[k].value ELSE NoneValue]
\* The row has a first cell that is part of the sheet data.
HasFirstCell(row) == row # <<>> /\ row[1].t = "ReadOnlyCell"
HeaderAt(sheet, k) ==
    /\ Values(sheet[k]) # <<>>
    /\ Values(sheet[k])[1].t = "str"
    /\ lower(strip(Values(sheet[k])[1].v)) =
          <<1085, 1086, 1084, 1077, 1088, 32, 1083, 1080, 1094, 1077, 1085,
            1079, 1080, 1080>>
HeaderIndex(sheet) ==
    IF \E k \in 1..Len(sheet) : HeaderAt(sheet, k)
    THEN CHOOSE k \in 1..Len(sheet) :
            HeaderAt(sheet, k) /\ \A l \in 1..(k - 1) : ~HeaderAt(sheet, l)
    ELSE 0
EndedNormally == rows_gen.state = "done" /\ rows_raised = NoError

\* C4: a sequence that has finished, unless a date failed to parse, has
\* raised nothing, has consumed the whole first worksheet, and has delivered
\* exactly one record for each physical row after the header row, in order,
\* numbered with the physical index of its row; none when there is no header
\* row.
C4_OneRecordPerRowAfterHeader ==
    (/\ worksheets # <<>>
     /\ rows_gen.state = "done"
     /\ rows_raised # Error("ValueError")) =>
        LET h == HeaderIndex(FirstSheet) IN
        /\ rows_raised = NoError
        /\ rows_gen.cursor = Len(FirstSheet)
        /\ Len(rows_out) = IF h = 0 THEN 0 ELSE Len(FirstSheet) - h
        /\ \A k \in 1..Len(rows_out) :
              rows_out[k].number_in_file = IntValue(h + k)

\* The raw value bound to the field at place pos of the mapped columns, when
\* the row is long enough to have one left after its last two cells go.
HasCell(values, pos) == pos <= Len(values) - 2
\* 'размещена'
Marker == <<1088, 1072, 1079, 1084, 1077, 1097, 1077, 1085, 1072>>
IsRow(r) == r.t = "LicensesFileRow"

\* C5 as claimed: is_information_in_register is true exactly when the
\* normalized license_status text is the marker.
C5_FlagFollowsLicenseStatus ==
    IsRow(record) =>
        record.is_information_in_register =
            BoolValue(record.license_status = StrValue(Marker))

\* C5 as amended: is_information_in_register is true exactly when the row's
\* own cell in that column (the 21st mapped cell), trimmed and lowercased, is
\* the marker, and false when the cell is missing or blank; license_status is
\* not consulted.
C5_FlagFollowsItsOwnCell ==
    IsRow(record) =>
        record.is_information_in_register =
            BoolValue(/\ HasCell(Values(cells), 21)
                      /\ Values(cells)[21].t = "str"
                      /\ lower(strip(Values(cells)[21].v)) = Marker)

C5_Witness ==
    /\ IsRow(record)
    /\ Values(cells)[3] = TextActive
    /\ HasCell(Values(cells), 21)
    /\ Values(cells)[21] = TextInRegister
    /\ record.is_information_in_register = BoolValue(TRUE)

\* Text of the exact shapes DD.MM.YYYY and DD.MM.YYYY HH:MM:SS, read by place.
Digits2(s, k) == s[k] \in 48..57 /\ s[k + 1] \in 48..57
Value2(s, k) == 10 * (s[k] - 48) + (s[k + 1] - 48)
DateShape(s) ==
    /\ Len(s) >= 10
    /\ Digits2(s, 1) /\ s[3] = 46 /\ Digits2(s, 4) /\ s[6] = 46
    /\ Digits2(s, 7) /\ Digits2(s, 9)
TimeShape(s) ==
    /\ Len(s) = 19
    /\ s[11] = 32
    /\ Digits2(s, 12) /\ s[14] = 58 /\ Digits2(s, 15) /\ s[17] = 58
    /\ Digits2(s, 18)
YearOf(s) == 100 * Value2(s, 7) + Value2(s, 9)
LastDay(Y, m) ==
    CASE m \in {4, 6, 9, 11} -> 30
      [] m = 2 -> IF (Y % 4 = 0 /\ Y % 100 # 0) \/ Y % 400 = 0 THEN 29 ELSE 28
      [] OTHER -> 31
RealDate(s) ==
    /\ YearOf(s) >= 1
    /\ Value2(s, 4) \in 1..12
    /\ Value2(s, 1) \in 1..LastDay(YearOf(s), Value2(s, 4))
RealTime(s) ==
    Value2(s, 12) <= 23 /\ Value2(s, 15) <= 59 /\ Value2(s, 18) <= 59
DenotesDate(s) == Len(s) = 10 /\ DateShape(s) /\ RealDate(s)
DenotesDatetime(s) == DateShape(s) /\ TimeShape(s) /\ RealDate(s) /\ RealTime(s)

BlankCell(values, pos) ==
    \/ ~HasCell(values, pos)
    \/ values[pos].t = "NoneType"
    \/ values[pos].t = "str" /\ strip(values[pos].v) = <<>>
TextCell(values, pos) == HasCell(values, pos) /\ values[pos].t = "str"

DateFieldAt == (16 :> "mkd_begin_management_date") @@ (17 :> "mkd_end_management_date")
DatetimeFieldAt ==
    (15 :> "mkd_included_register_date") @@ (18 :> "mkd_excluded_register_date")

\* C9: in a constructed row each of the four date fields is the maximum
\* datetime when its cell is missing, empty or whitespace, and the datetime
\* its cell denotes when the cell (trimmed) has the field's format; a row
\* whose first cell is part of the sheet data, and whose four date cells are
\* all of these two kinds, is constructed.
C9_DateFieldValues ==
    record # Unset =>
        /\ IsRow(record) =>
              /\ \A pos \in DOMAIN DateFieldAt \cup DOMAIN DatetimeFieldAt :
                    BlankCell(Values(cells), pos) =>
                        record[(DateFieldAt @@ DatetimeFieldAt)[pos]] =
                            datetime(9999, 12, 31, 23, 59, 59, 999999)
              /\ \A pos \in DOMAIN DateFieldAt :
                    TextCell(Values(cells), pos) =>
                        LET s == strip(Values(cells)[pos].v) IN
                        DenotesDate(s) =>
                            record[DateFieldAt[pos]] =
                                datetime(YearOf(s), Value2(s, 4), Value2(s, 1),
                                         0, 0, 0, 0)
              /\ \A pos \in DOMAIN DatetimeFieldAt :
                    TextCell(Values(cells), pos) =>
                        LET s == strip(Values(cells)[pos].v) IN
                        DenotesDatetime(s) =>
                            record[DatetimeFieldAt[pos]] =
                                datetime(YearOf(s), Value2(s, 4), Value2(s, 1),
                                         Value2(s, 12), Value2(s, 15),
                                         Value2(s, 18), 0)
        /\ (/\ HasFirstCell(cells)
            /\ \A pos \in DOMAIN DateFieldAt :
                  \/ BlankCell(Values(cells), pos)
                  \/ DenotesDate(strip(Values(cells)[pos].v))
            /\ \A pos \in DOMAIN DatetimeFieldAt :
                  \/ BlankCell(Values(cells), pos)
                  \/ DenotesDatetime(strip(Values(cells)[pos].v)))
           => IsRow(record)

C9_Witness ==
    /\ IsRow(record)
    /\ Len(Values(cells)) = 23
    /\ Values(cells)[16] = TextDate
    /\ record.mkd_begin_management_date = datetime(2020, 2, 1, 0, 0, 0, 0)
    /\ Values(cells)[17] = NoneValue
    /\ record.mkd_end_management_date = datetime(9999, 12, 31, 23, 59, 59, 999999)
    /\ Values(cells)[15] = TextBlank
    /\ record.mkd_included_register_date.year = 9999
    /\ Values(cells)[18] = TextDatetime
    /\ record.mkd_excluded_register_date = datetime(2020, 2, 1, 10, 20, 30, 0)

\* A date cell that cannot have the field's format: text that is not blank
\* and holds a character the format has no place for.
DateAlphabet == 48..57 \cup {46}
DatetimeAlphabet == 48..57 \cup {46, 58, 9, 32}
Malformed(values, pos, alphabet) ==
    /\ TextCell(values, pos)
    /\ strip(values[pos].v) # <<>>
    /\ \E k \in 1..Len(strip(values[pos].v)) : strip(values[pos].v)[k] \notin alphabet
HasMalformedDate(values) ==
    \/ \E pos \in DOMAIN DateFieldAt : Malformed(values, pos, DateAlphabet)
    \/ \E pos \in DOMAIN DatetimeFieldAt : Malformed(values, pos, DatetimeAlphabet)
\* The first row after the header with such a cell (0: there is none).
FirstMalformed(sheet, h) ==
    IF \E k \in (h + 1)..Len(sheet) : HasMalformedDate(Values(sheet[k]))
    THEN CHOOSE k \in (h + 1)..Len(sheet) :
            /\ HasMalformedDate(Values(sheet[k]))
            /\ \A l \in (h + 1)..(k - 1) : ~HasMalformedDate(Values(sheet[l]))
    ELSE 0
\* The header scan does not fail: every row it reads has a first cell, and
\* that cell is text or blank.
ScanReadsText(sheet, h) ==
    \A k \in 1..h :
        /\ Values(sheet[k]) # <<>>
        /\ Values(sheet[k])[1].t \in {"str", "NoneType"}
\* The rows after the header up to row b have a first cell that is part of
\* the sheet data: each has a number to give its record.
RowsHaveFirstCell(sheet, h, b) ==
    \A k \in (h + 1)..b : HasFirstCell(sheet[k])

\* C8: when row b is the first row after the header with a malformed date
\* cell, and the rows up to it have a first cell to take their number from,
\* the records of the rows
\* between the header and b are delivered, the
\* pull for row b raises the parse error (no record is made of row b), no
\* error is raised before that pull, and nothing is delivered after it.
C8_DateErrorSurfacesAtPull ==
    worksheets # <<>> =>
        LET h == HeaderIndex(FirstSheet)
            b == FirstMalformed(FirstSheet, h)
        IN  (/\ h > 0 /\ b > 0 /\ ScanReadsText(FirstSheet, h)
             /\ RowsHaveFirstCell(FirstSheet, h, b)) =>
                /\ Len(rows_out) <= b - h - 1
                /\ \A k \in 1..Len(rows_out) :
                      rows_out[k].number_in_file = IntValue(h + k)
                /\ rows_gen.cursor <= b
                /\ rows_gen.cursor < b => rows_raised = NoError
                /\ rows_gen.cursor = b =>
                      /\ rows_raised = Error("ValueError")
                      /\ rows_gen.state = "done"
                      /\ Len(rows_out) = b - h - 1

C8_Witness ==
    /\ worksheets # <<>>
    /\ HeaderIndex(FirstSheet) = 1
    /\ FirstMalformed(FirstSheet, 1) = 3
    /\ Len(FirstSheet) = 4
    /\ rows_raised = Error("ValueError")
    /\ rows_gen.state = "done"
    /\ Len(rows_out) = 1

(***************************************************************************)
(* Properties of the pipeline.                                             *)
(***************************************************************************)
Known == DOMAIN REGION_CODES_AND_NAMES
LookupRequests == SelectSeq(requests_sent, LAMBDA r : r.kind = "license_uid")
DownloadRequests == SelectSeq(requests_sent, LAMBDA r : r.kind = "licenses_info")
LookupsFinished == pc \in {"licenses_info", "returned"}
\* The regions whose lookup was answered with the uid (HTTP 200).
LookedUp ==
    {REGION_CODES_AND_NAMES[LookupRequests[k].region_code] :
        k \in {l \in 1..Len(LookupRequests) : LookupRequests[l].status = 200}}
\* The regions whose download was answered with the archive (HTTP 200).
Downloaded ==
    {DownloadRequests[k].region_name :
        k \in {l \in 1..Len(DownloadRequests) : DownloadRequests[l].status = 200}}
Logged(step) ==
    LET es == SelectSeq(error_log, LAMBDA e : e.step = step)
    IN  [k \in 1..Len(es) |-> es[k].region]
Answered(reqs) == SelectSeq(reqs, LAMBDA r : r.status # 0)
Refused(reqs) == SelectSeq(reqs, LAMBDA r : r.status \notin {0, 200})

\* C1: when some requested region code is absent from the reference table,
\* get_licenses raises the region-not-found error naming an absent code (the
\* first one), no network request has been issued, and no result sequence is
\* returned, also when earlier codes are valid.
C1_AbsentRegionRaisesBeforeNetwork ==
    (\E k \in 1..Len(region_codes) : region_codes[k] \notin Known) =>
        /\ pc \in {"validate", "raised"}
        /\ requests_sent = <<>>
        /\ gen.state = "none"
        /\ license_uids = <<>> /\ licenses_info = <<>>
        /\ pc = "raised" =>
              /\ raised.type = "RegionCodeIsAbsentError"
              /\ raised.region_code \notin Known
              /\ \E k \in 1..Len(region_codes) :
                    /\ region_codes[k] = raised.region_code
                    /\ \A l \in 1..(k - 1) : region_codes[l] \in Known

C1_Witness ==
    /\ pc = "raised"
    /\ raised.type = "RegionCodeIsAbsentError"
    /\ Len(region_codes) >= 2
    /\ region_codes[1] \in Known

\* C2: a lookup answered with a status other than 200 is logged and leaves out
\* only its region: every requested region is still looked up, in order, and
\* license_uids maps exactly the regions whose lookup returned 200; the
\* workbooks produced in the end all come from such regions.
C2_LookupFailureIsPerRegion ==
    /\ Logged("license_uid") =
          [k \in 1..Len(Refused(LookupRequests)) |->
              Refused(LookupRequests)[k].region_code]
    /\ DictKeySet(license_uids) = LookedUp
    /\ Len(Answered(LookupRequests)) = i
    /\ Len(LookupRequests) <= Len(region_codes)
    /\ \A k \in 1..Len(LookupRequests) :
          LookupRequests[k].region_code = region_codes[k]
    /\ LookupsFinished => i = Len(region_codes)
    /\ \A k \in 1..Len(workbooks) : workbooks[k].region_name \in LookedUp

C2_Witness ==
    /\ gen.state = "done"
    /\ Len(LookupRequests) = 2
    /\ LookupRequests[1].status = 500
    /\ LookupRequests[2].status = 200
    /\ LookupRequests[1].region_code # LookupRequests[2].region_code
    /\ Len(workbooks) > 0
    /\ Len(Logged("license_uid")) = 1

\* C3: one download request is issued per entry of license_uids, in its order
\* and with its uid, and none for any other region; a download answered with a
\* status other than 200 is logged and leaves out only its region, and
\* licenses_info maps exactly the regions whose download returned 200.
C3_OneDownloadPerEntry ==
    /\ Len(Answered(DownloadRequests)) = j
    /\ Len(DownloadRequests) <= Len(license_uids)
    /\ \A k \in 1..Len(DownloadRequests) :
          /\ DownloadRequests[k].region_name = license_uids[k][1]
          /\ DownloadRequests[k].uid = license_uids[k][2]
    /\ pc = "returned" => j = Len(license_uids)
    /\ DictKeySet(licenses_info) = Downloaded
    /\ Logged("licenses_info") =
          [k \in 1..Len(Refused(DownloadRequests)) |->
              Refused(DownloadRequests)[k].region_name]

C3_Witness ==
    /\ pc = "returned"
    /\ Len(license_uids) = 2
    /\ Len(DownloadRequests) = 2
    /\ DownloadRequests[1].status = 500
    /\ DownloadRequests[2].status = 200
    /\ DictKeys(licenses_info) = <<license_uids[2][1]>>
    /\ Len(LookupRequests) = 3

\* C6: once the workbook sequence is exhausted or abandoned, every archive
\* handle and every workbook handle it opened is closed.
C6_HandlesReleased ==
    gen.state \in {"done", "closed"} =>
        /\ \A k \in 1..Len(zip_files) : ~zip_files[k].open
        /\ \A k \in 1..Len(workbooks) : ~workbooks[k].open

\* C7: every network request of the pipeline carries the timeout configured
\* on the client.
C7_EveryRequestBounded ==
    \A k \in 1..Len(requests_sent) :
        /\ requests_sent[k].timeout.bounded
        /\ requests_sent[k].timeout.seconds = timeout

\* C10: nothing is extracted before the first pull, and after k elements have
\* been pulled the last archive opened is the one the k-th element came from.
C10_ExtractionIsLazy ==
    /\ gen.state \in {"none", "created"} => zip_files = <<>> /\ workbooks = <<>>
    /\ gen.state = "suspended" =>
          /\ gen.pulled = Len(workbooks)
          /\ Len(zip_files) = gen.archive
          /\ zip_files[Len(zip_files)].region_name =
                workbooks[gen.pulled].region_name
          /\ \A k \in 1..Len(zip_files) :
                zip_files[k].region_name = licenses_info[k][1]

C10_Witness ==
    /\ gen.state = "suspended"
    /\ gen.pulled = 1
    /\ Len(licenses_info) = 2
    /\ Len(zip_files) = 1

(***************************************************************************)
(* The workbook sequence against the archives it is drawn from.            *)
(***************************************************************************)
SpreadsheetExtension == <<46, 120, 108, 115, 120>>       \* .xlsx
EndsInExtension(name) ==
    /\ Len(name) >= Len(SpreadsheetExtension)
    /\ \A k \in 1..Len(SpreadsheetExtension) :
          name[Len(name) - Len(SpreadsheetExtension) + k] = SpreadsheetExtension[k]
SpreadsheetMembers(names) == SelectSeq(names, EndsInExtension)
WorkbooksOf(region_name) ==
    SelectSeq(workbooks, LAMBDA w : w.region_name = region_name)

\* C11 as stated: an archive gives at most one workbook, so no two workbooks
\* of the sequence come from the same region.
C11_AtMostOneWorkbookPerRegion ==
    \A k \in 1..Len(workbooks), l \in 1..Len(workbooks) :
        workbooks[k].region_name = workbooks[l].region_name => k = l

\* C11, amended: every member whose name ends in the spreadsheet extension
\* is consumed; a region never gives more workbooks than its archive has
\* such members, and gives exactly that many once the sequence is exhausted.
C11_OneWorkbookPerSpreadsheetMember ==
    \A a \in 1..Len(licenses_info) :
        /\ Len(WorkbooksOf(licenses_info[a][1])) <=
              Len(SpreadsheetMembers(licenses_info[a][2]))
        /\ gen.state = "done" =>
              Len(WorkbooksOf(licenses_info[a][1])) =
                  Len(SpreadsheetMembers(licenses_info[a][2]))

C11_Witness ==
    /\ gen.state = "done"
    /\ \E a \in 1..Len(licenses_info) :
          /\ Len(SpreadsheetMembers(licenses_info[a][2])) = 2
          /\ Len(WorkbooksOf(licenses_info[a][1])) = 2

RECURSIVE ExpectedPairs(_)
ExpectedPairs(info) ==
    IF info = <<>> THEN <<>>
    ELSE [k \in 1..Len(SpreadsheetMembers(info[1][2])) |->
             [region_name |-> info[1][1],
              name |-> SpreadsheetMembers(info[1][2])[k]]]
         \o ExpectedPairs(Tail(info))
YieldedPairs ==
    [k \in 1..Len(workbooks) |->
        [region_name |-> workbooks[k].region_name, name |-> workbooks[k].name]]

\* C12: the pairs yielded are, in order, one per archive member whose name
\* ends in the spreadsheet extension, each with the region name of its
\* archive, and nothing else; an archive without such a member gives no pair
\* and the archives after it are still processed.
C12_OnePairPerSpreadsheetMember ==
    /\ Len(YieldedPairs) <= Len(ExpectedPairs(licenses_info))
    /\ YieldedPairs = SubSeq(ExpectedPairs(licenses_info), 1, Len(YieldedPairs))
    /\ gen.state = "done" => YieldedPairs = ExpectedPairs(licenses_info)

C12_Witness ==
    /\ gen.state = "done"
    /\ Len(licenses_info) = 2
    /\ licenses_info[1][2] = <<TxtA>>
    /\ licenses_info[2][2] = <<XlsxA, UpperA, XlsxB>>
    /\ Len(workbooks) = 2
    /\ workbooks[1].region_name = licenses_info[2][1]

\* C13: a request whose transport failed is the last request ever issued (no
\* later region is requested, nothing is retried): get_licenses has raised
\* the transport error of that stage, the failure is not logged as a
\* per-region exclusion, and no workbook sequence exists.
C13_TransportFailurePropagates ==
    \A k \in 1..Len(requests_sent) :
        requests_sent[k].status = 0 =>
            /\ k = Len(requests_sent)
            /\ pc = "raised"
            /\ raised.type = "RequestException"
            /\ raised.step = requests_sent[k].kind
            /\ Len(error_log) = Len(Refused(requests_sent))
            /\ gen.state = "none"
            /\ workbooks = <<>>

C13_Witness ==
    /\ pc = "raised"
    /\ raised.type = "RequestException"
    /\ Len(region_codes) = 3
    /\ Len(requests_sent) = 2
    /\ requests_sent[1].status = 200
    /\ requests_sent[2].status = 0

\* The two characters a code below 100 is written with in a lookup path.
TwoDigitForm(code) == <<48 + (code \div 10), 48 + (code % 10)>>

\* C18: the lookup requests are one per requested code, in order, none
\* missing once the lookups are finished, and the path of each ends in the
\* two-digit form of its code: a leading zero for a code below 10, the code
\* itself from 10 on.
C18_LookupPathIsTwoDigitCode ==
    /\ Len(LookupRequests) <= Len(region_codes)
    /\ LookupsFinished => Len(LookupRequests) = Len(region_codes)
    /\ \A k \in 1..Len(LookupRequests) :
          /\ LookupRequests[k].region_code = region_codes[k]
          /\ LookupRequests[k].region_code \in Known
          /\ LookupRequests[k].region_code < 100
          /\ LookupRequests[k].path = TwoDigitForm(LookupRequests[k].region_code)
          /\ LookupRequests[k].region_code < 10 =>
                /\ LookupRequests[k].path[1] = 48
                /\ LookupRequests[k].path[2] = 48 + LookupRequests[k].region_code

C18_Witness ==
    /\ LookupsFinished
    /\ Len(LookupRequests) = 3
    /\ LookupRequests[1].region_code = 5
    /\ LookupRequests[1].path = <<48, 53>>
    /\ LookupRequests[2].region_code = 77
    /\ LookupRequests[2].path = <<55, 55>>
    /\ LookupRequests[3].region_code = 5

\* C19: a request is issued only after every requested code has been found
\* in the table; the lookups all precede the downloads, and a download is
\* issued only when every code has been looked up; the workbook sequence
\* exists only when every entry of license_uids has been downloaded; and from
\* then on the requests are the ones issued before the return, whatever has
\* been pulled: one per requested code and one per entry of license_uids.
C19_PhasesInOrder ==
    /\ requests_sent # <<>> =>
          /\ pc # "validate"
          /\ \A k \in 1..Len(region_codes) : region_codes[k] \in Known
    /\ \A k \in 1..Len(requests_sent), l \in 1..Len(requests_sent) :
          (requests_sent[k].kind = "licenses_info" /\
           requests_sent[l].kind = "license_uid") => l < k
    /\ DownloadRequests # <<>> =>
          /\ i = Len(region_codes)
          /\ Len(LookupRequests) = Len(region_codes)
    /\ gen.state # "none" =>
          /\ pc = "returned"
          /\ j = Len(license_uids)
          /\ Len(DownloadRequests) = Len(license_uids)
          /\ Len(requests_sent) = Len(region_codes) + Len(license_uids)
    /\ gen.state = "none" => zip_files = <<>> /\ workbooks = <<>>

C19_Witness ==
    /\ gen.state = "done"
    /\ Len(workbooks) >= 2
    /\ Len(LookupRequests) = 3
    /\ Len(DownloadRequests) = 2
    /\ Len(requests_sent) = 5

(***************************************************************************)
(* The row sequence over several readings of Licenses.rows.                *)
(***************************************************************************)
\* The number of rows of the first worksheet after its header row.
RowsAfterHeader ==
    IF HeaderIndex(FirstSheet) = 0 THEN 0
    ELSE Len(FirstSheet) - HeaderIndex(FirstSheet)

\* C14 as stated: once a row sequence of the workbook has been exhausted, a
\* later iteration for the same workbook delivers no row.
C14_NoRowsAfterExhaustion ==
    rows_gen.exhausted => rows_out = <<>>

\* C14, amended: one sequence object never delivers more than the rows after
\* the header, and a pull made after it has finished delivers nothing; a
\* sequence obtained by reading rows again, after an earlier one was
\* exhausted, delivers every row after the header once more.
C14_SinglePassPerSequenceObject ==
    /\ rows_gen.pulled_dry => rows_gen.state = "done"
    /\ worksheets # <<>> =>
          /\ Len(rows_out) <= RowsAfterHeader
          /\ (rows_gen.pulled_dry /\ rows_raised = NoError) =>
                Len(rows_out) = RowsAfterHeader
          /\ (rows_gen.exhausted /\ EndedNormally) =>
                Len(rows_out) = RowsAfterHeader

C14_Witness ==
    /\ worksheets # <<>>
    /\ rows_gen.exhausted
    /\ EndedNormally
    /\ rows_gen.pulled_dry
    /\ Len(rows_out) = 2

\* C15: with no worksheet, reading rows raises nothing and the first pull
\* raises the no-worksheet error with no row read or delivered; with at
\* least one worksheet that error is never raised and every row read or
\* delivered is a row of the first worksheet.
C15_NoWorksheetErrorAtFirstPull ==
    /\ worksheets = <<>> =>
          /\ rows_out = <<>>
          /\ rows_gen.cursor = 0
          /\ rows_gen.state \in {"none", "created", "done"}
          /\ rows_gen.state \in {"none", "created"} => rows_raised = NoError
          /\ rows_gen.state = "done" =>
                rows_raised = Error("WorksheetAbsentError")
    /\ worksheets # <<>> =>
          /\ rows_raised # Error("WorksheetAbsentError")
          /\ rows_gen.cursor <= Len(worksheets[1])
          /\ \A k \in 1..Len(rows_out) :
                /\ HeaderIndex(worksheets[1]) + k <= rows_gen.cursor
                /\ rows_out[k].number_in_file =
                      IntValue(HeaderIndex(worksheets[1]) + k)
                /\ HasFirstCell(worksheets[1][HeaderIndex(worksheets[1]) + k])
                /\ rows_out[k].license_number.t =
                      Values(worksheets[1][HeaderIndex(worksheets[1]) + k])[1].t

C15_Witness ==
    /\ worksheets = <<>>
    /\ rows_gen.state = "done"
    /\ rows_raised = Error("WorksheetAbsentError")
    /\ rows_gen.pulled_dry

(***************************************************************************)
(* The mapping of the cells of a row to the fields of its record.          *)
(***************************************************************************)
\* A cell value once trimmed and lowercased (values that are not text are
\* left as they are).
Normalized(c) == IF c.t = "str" THEN StrValue(lower(strip(c.v))) ELSE c
DateFieldNames ==
    {"mkd_included_register_date", "mkd_begin_management_date",
     "mkd_end_management_date", "mkd_excluded_register_date"}
FlagFieldName == "is_information_in_register"
\* The field the cell at position pos goes to: the pos-th after house_fias_id.
FieldOfCell(pos) == FieldNames[pos + 2]
\* What a field comes out as when the row has no cell for it.
ValueWithoutCell(name) ==
    IF name \in DateFieldNames THEN datetime_max
    ELSE IF name = FlagFieldName THEN BoolValue(FALSE)
    ELSE StrValue(<<>>)
ValueFromCell(name, c) ==
    IF name \in DateFieldNames
    THEN IF Normalized(c).t = "str" /\ Normalized(c).v # <<>>
         THEN record[name].t = "datetime" /\ record[name] # datetime_max
         ELSE record[name] = datetime_max
    ELSE IF name = FlagFieldName
    THEN record[name] = BoolValue(Normalized(c) = StrValue(Marker))
    ELSE record[name] = Normalized(c)

\* C16: in a constructed row number_in_file is the physical index of the
\* row, house_fias_id is the empty string, the cell at position pos, the last
\* two cells of the row left out, gives the pos-th field after house_fias_id,
\* and a field that no cell is left for comes out as its default: the empty
\* string for a text field, the maximum datetime for a date field, false for
\* the flag.
C16_CellsMapToFieldsByPosition ==
    IsRow(record) =>
        /\ HasFirstCell(cells)
        /\ record.number_in_file = IntValue(cells[1].row)
        /\ record.house_fias_id = StrValue(<<>>)
        /\ Len(Values(cells)) - 2 <= Len(FieldNames) - 2
        /\ \A pos \in 1..(Len(FieldNames) - 2) :
              IF HasCell(Values(cells), pos)
              THEN ValueFromCell(FieldOfCell(pos), Values(cells)[pos])
              ELSE record[FieldOfCell(pos)] = ValueWithoutCell(FieldOfCell(pos))

C16_Witness ==
    /\ IsRow(record)
    /\ Len(Values(cells)) = 19
    /\ record.house_fias_id = StrValue(<<>>)
    /\ record.license_number = Normalized(Values(cells)[1])
    /\ record.mkd_end_management_date # datetime_max
    /\ record.mkd_excluded_register_date = datetime_max
    /\ record.state_198_info = StrValue(<<>>)
    /\ record.is_information_in_register = BoolValue(FALSE)

\* The row with every cell replaced by its trimmed lowercase form.
NormalizedCells ==
    [k \in 1..Len(cells) |->
        IF cells[k].t = "ReadOnlyCell"
        THEN [cells[k] EXCEPT !.value = Normalized(@)] ELSE cells[k]]

\* C17: in a constructed row every field that is text is the trimmed
\* lowercase form of its cell, and the whole outcome (the record with its
\* dates and its flag, or the error) is the one the row gives when every
\* cell is replaced by its trimmed lowercase form.
C17_FieldsComeFromNormalizedText ==
    record # Unset =>
        /\ record = make_gis_gkh_row(NormalizedCells)
        /\ IsRow(record) =>
              \A pos \in 1..(Len(FieldNames) - 2) :
                  /\ record[FieldOfCell(pos)].t = "str" =>
                        /\ record[FieldOfCell(pos)].v =
                              lower(strip(record[FieldOfCell(pos)].v))
                        /\ HasCell(Values(cells), pos) =>
                              /\ Values(cells)[pos].t = "str"
                              /\ record[FieldOfCell(pos)].v =
                                    lower(strip(Values(cells)[pos].v))

C17_Witness ==
    /\ IsRow(record)
    /\ Len(Values(cells)) = 23
    /\ Values(cells)[3] = TextInRegister
    /\ record.license_status = TextInRegisterPlain
    /\ Values(cells)[16] = TextDatePadded
    /\ record.mkd_begin_management_date = datetime(2000, 2, 29, 0, 0, 0, 0)
    /\ Values(cells)[15] = TextDatetimePadded
    /\ Values(cells)[21] = TextInRegister
    /\ record.is_information_in_register = BoolValue(TRUE)

(***************************************************************************)
(* The sessions of HTTPClient.                                             *)
(***************************************************************************)
\* The calls whose request was sent: they ended with a response or with the
\* error session.send raised.
Sent(k) == http_calls[k].outcome \in {"response", "raised"}

\* C20: without keep_alive the client holds no session, every call has a
\* session of its own, made after the session of every earlier call, and the
\* session of a call whose request was sent is closed once the call has
\* ended, with a response or with an error; with keep_alive at most one
\* session exists, the client holds it from the moment it is made, every
\* call uses it and no call closes it.
C20_SessionLifecycle ==
    /\ \A k \in 1..Len(http_calls) : http_calls[k].session \in 1..Len(sessions)
    /\ ~keep_alive =>
          /\ http_session = 0
          /\ \A k \in 1..Len(http_calls) :
                /\ http_calls[k].session >= k
                /\ \A l \in 1..(k - 1) :
                      http_calls[l].session < http_calls[k].session
                /\ Sent(k) => sessions[http_calls[k].session].closed
    /\ keep_alive =>
          /\ Len(sessions) <= 1
          /\ sessions # <<>> => http_session = 1
          /\ http_calls # <<>> => http_session = 1 /\ Len(sessions) = 1
          /\ \A k \in 1..Len(http_calls) : http_calls[k].session = 1
          /\ \A k \in 1..Len(sessions) : ~sessions[k].closed

C20_Witness ==
    /\ keep_alive
    /\ Len(http_calls) = 3
    /\ http_calls[1].outcome = "response"
    /\ http_calls[2].outcome = "raised"
    /\ http_calls[3].outcome = "response"
    /\ Len(sessions) = 1
====
